---- MODULE Spec2Model ----
(***************************************************************************)
(* Verification model of the candidate/vacancy matching pipeline:         *)
(*   - AgentCoordinator (src/agents/agent_coordinator.py): evaluator       *)
(*     selection, sequential / concurrent evaluator runs, aggregation,     *)
(*     summary;                                                            *)
(*   - MatchingService and RAGService (src/services): single-vacancy       *)
(*     queries, bulk mode, the in-memory entity store.                     *)
(*                                                                         *)
(* Scores and confidences are carried in tenths (0.8 is 8); a quotient is  *)
(* kept as an exact fraction [num, den] and compared by cross              *)
(* multiplication.  Texts are sets of lower-cased words; "keyword in text" *)
(* is membership of the keyword in that set.                               *)
(***************************************************************************)
EXTENDS Integers, Sequences, FiniteSets, TLC

----------------------------------------------------------------------------
(* Bounds of the model *)

\* longest explicit agents list passed to analyze_candidate
MaxAgents == 2
\* most words in one text field of a vacancy
MaxWords == 1
\* most vacancies in the entity store
MaxVacancies == 2

----------------------------------------------------------------------------
(* Values *)

\* the roster, in construction order
all_agents ==
  << "DevOpsAgent", "DatabaseAgent", "PythonExpertAgent", "GitHubAnalystAgent",
     "TestResultsAgent", "AchievementVerifierAgent", "SoftSkillsAgent",
     "SecurityExpertAgent", "ArchitectureAgent", "CommunicationAgent" >>

\* keyword lists of the relevance predicates (Russian entries transliterated)
devops_keywords ==
  { "docker", "kubernetes", "ci/cd", "devops", "aws", "azure", "gcp",
    "jenkins", "gitlab", "terraform" }
db_keywords ==
  { "sql", "database", "postgresql", "mysql", "mongodb", "redis", "orm",
    "sqlalchemy", "baza dannykh" }
security_keywords ==
  { "security", "bezopasnost", "authentication", "authorization", "oauth",
    "jwt", "encryption" }
arch_keywords == { "architect", "arkhitektur", "design", "microservices" }

\* words a vacancy text is built from: a keyword of each family and a word
\* that no predicate looks for
Words == { "docker", "sql", "python", "jwt", "design", "sales" }

SmallSets(S, n) == { T \in SUBSET S : Cardinality(T) <= n }

\* Optional[int]: the empty set is None, {y} is y years
ExperienceYears == { {}, {0}, {3}, {5} }

Vacancy ==
  [ title : SmallSets(Words, MaxWords),
    description : SmallSets(Words, MaxWords),
    skills : SmallSets(Words, MaxWords),
    experience_years : ExperienceYears ]

\* truthiness of "vacancy.experience_years and vacancy.experience_years >= n"
YearsAtLeast(v, n) == \E y \in v.experience_years : y # 0 /\ y >= n

is_relevant_for_vacancy(agent, v) ==
  LET text == v.description \cup v.skills
  IN CASE agent = "DevOpsAgent" -> devops_keywords \cap text # {}
       [] agent = "DatabaseAgent" -> db_keywords \cap text # {}
       [] agent = "PythonExpertAgent" -> "python" \in text
       [] agent = "GitHubAnalystAgent" -> YearsAtLeast(v, 3)
       [] agent = "TestResultsAgent" -> TRUE
       [] agent = "AchievementVerifierAgent" -> TRUE
       [] agent = "SoftSkillsAgent" -> TRUE
       [] agent = "SecurityExpertAgent" -> security_keywords \cap text # {}
       [] agent = "ArchitectureAgent" ->
            YearsAtLeast(v, 5) \/ arch_keywords \cap (v.title \cup v.description) # {}
       [] agent = "CommunicationAgent" -> TRUE

RECURSIVE FilterSeq(_, _)
\* [x for x in s if x in keep]
FilterSeq(s, keep) ==
  IF s = << >> THEN << >>
  ELSE IF Head(s) \in keep
       THEN << Head(s) >> \o FilterSeq(Tail(s), keep)
       ELSE FilterSeq(Tail(s), keep)

SeqRange(s) == { s[k] : k \in 1..Len(s) }

\* [agent for agent in self.all_agents if agent.is_relevant_for_vacancy(vacancy)]
rule_based_agents(v) ==
  FilterSeq(all_agents, { a \in SeqRange(all_agents) : is_relevant_for_vacancy(a, v) })

\* display names, as the language model is asked to answer with them
get_name(agent) ==
  CASE agent = "DevOpsAgent" -> "DevOps expert"
    [] agent = "DatabaseAgent" -> "Database expert"
    [] agent = "PythonExpertAgent" -> "Python expert"
    [] agent = "GitHubAnalystAgent" -> "GitHub analyst"
    [] agent = "TestResultsAgent" -> "Testing"
    [] agent = "AchievementVerifierAgent" -> "Achievement verifier"
    [] agent = "SoftSkillsAgent" -> "Soft Skills"
    [] agent = "SecurityExpertAgent" -> "Security expert"
    [] agent = "ArchitectureAgent" -> "Architecture"
    [] agent = "CommunicationAgent" -> "Communication"

\* outcomes of the selection call of the language model: it raises, or
\* answers a list of names (split at the commas and stripped): no name,
\* roster names, a name outside the roster
SelectionOutcomes ==
  { [raised |-> TRUE, names |-> << >>],
    [raised |-> FALSE, names |-> << >>],
    [raised |-> FALSE, names |-> << "DevOps expert" >>],
    [raised |-> FALSE, names |-> << "Python expert", "Testing" >>],
    [raised |-> FALSE, names |-> << "Nobody" >>] }

NoSelection == [raised |-> FALSE, names |-> << "not called" >>]

\* the selection of a coordinator that trusted the model's answer
SelectedByModelAnswer(v, outcome) ==
  [ raised |-> FALSE,
    agents |-> IF outcome.raised THEN rule_based_agents(v)
               ELSE FilterSeq(all_agents,
                      { a \in SeqRange(all_agents) :
                          get_name(a) \in SeqRange(outcome.names) }) ]

\* select_agents_for_vacancy: the answer is logged and dropped; the
\* predicate subset is returned on the normal and on the except path
select_agents_for_vacancy(v, outcome) ==
  IF outcome.raised
  THEN [raised |-> FALSE, agents |-> rule_based_agents(v)]
  ELSE [raised |-> FALSE, agents |-> rule_based_agents(v)]

----------------------------------------------------------------------------
(* AgentCoordinator.analyze_candidate: inputs and values *)

\* scores and confidences an evaluator reports, in tenths
ScoreVals == { 2, 9 }
ConfVals == { 0, 5 }

\* outcome of one evaluator's analyze call: it raises or returns an AgentResult
AgentOutcomes ==
  { [raised |-> TRUE, score |-> 0, confidence |-> 0] } \cup
  [ raised : { FALSE }, score : ScoreVals, confidence : ConfVals ]

AgentResult(a, o) == [agent_name |-> a, score |-> o.score, confidence |-> o.confidence]

\* outcomes of the summary call of the language model
SummaryOutcomes == { [raised |-> TRUE, text |-> ""], [raised |-> FALSE, text |-> "model summary"] }

\* evaluators an explicit agents list is made of
ExplicitPool == { "DevOpsAgent", "PythonExpertAgent", "CommunicationAgent" }

RECURSIVE DistinctSeqs(_, _)
\* the sequences of at most n distinct members of S
DistinctSeqs(S, n) ==
  IF n = 0 THEN { << >> }
  ELSE { << >> } \cup
       UNION { { << x >> \o t : t \in DistinctSeqs(S \ { x }, n - 1) } : x \in S }

\* the agents argument: not given (None) or an explicit list
AgentsArgs ==
  { [given |-> FALSE, list |-> << >>] } \cup
  [ given : { TRUE }, list : DistinctSeqs(ExplicitPool, MaxAgents) ]

\* vacancies of the analyze_candidate runs: one that selects the four
\* unconditional evaluators only, one that adds the Python expert
CoordVacancies ==
  { [title |-> {}, description |-> { "sales" }, skills |-> {}, experience_years |-> {}],
    [title |-> {}, description |-> { "sales" }, skills |-> { "python" },
     experience_years |-> { 0 }] }

\* an exact fraction
Frac(n, d) == [num |-> n, den |-> d, zero_division |-> d = 0]
FracEq(a, b) == ~a.zero_division /\ ~b.zero_division /\ a.num * b.den = b.num * a.den

RECURSIVE SumConfidence(_)
\* sum(result.confidence for result in agent_results)
SumConfidence(rs) == IF rs = << >> THEN 0 ELSE Head(rs).confidence + SumConfidence(Tail(rs))

RECURSIVE SumScore(_)
\* sum(result.score for result in agent_results)
SumScore(rs) == IF rs = << >> THEN 0 ELSE Head(rs).score + SumScore(Tail(rs))

RECURSIVE SumWeighted(_)
\* sum(result.score * result.confidence for result in agent_results)
SumWeighted(rs) ==
  IF rs = << >> THEN 0
  ELSE Head(rs).score * Head(rs).confidence + SumWeighted(Tail(rs))

\* the aggregation without its guard on the total confidence
WeightedOnly(agent_results) ==
  Frac(SumWeighted(agent_results), SumConfidence(agent_results))

\* lines 200-209: the confidence-weighted overall score
OverallScore(agent_results) ==
  LET total_weight == SumConfidence(agent_results)
  IN IF total_weight > 0
     THEN Frac(SumWeighted(agent_results), total_weight)
     ELSE Frac(SumScore(agent_results), Len(agent_results))

\* the three static texts and the return values
NoAgentsSummary == "no suitable agents for the analysis"
AgentsErrorSummary == "agent analysis error"
FallbackSummary == "analysis finished, see the details of each agent"

NotReturned ==
  [ kind |-> "none", agent_results |-> << >>, overall_score |-> Frac(0, 1),
    summary |-> "", has_total_agents |-> FALSE, total_agents |-> 0 ]

\* the three-key dictionary of the two early returns
EarlyReturn(summary) ==
  [ kind |-> "return", agent_results |-> << >>, overall_score |-> Frac(0, 1),
    summary |-> summary, has_total_agents |-> FALSE, total_agents |-> 0 ]

Raised ==
  [ kind |-> "raise", agent_results |-> << >>, overall_score |-> Frac(0, 1),
    summary |-> "", has_total_agents |-> FALSE, total_agents |-> 0 ]

\* _generate_summary without its try/except
SummaryUnguarded(outcome) ==
  IF outcome.raised THEN [raised |-> TRUE, text |-> ""]
  ELSE [raised |-> FALSE, text |-> outcome.text]

\* _generate_summary: the model's text, or the static text when the call raises
_generate_summary(outcome) ==
  IF outcome.raised THEN [raised |-> FALSE, text |-> FallbackSummary]
  ELSE [raised |-> FALSE, text |-> outcome.text]

\* lines 221-226 (a raise of _generate_summary would pass through line 215)
FullReturn(results, score, s) ==
  IF s.raised THEN Raised
  ELSE [ kind |-> "return", agent_results |-> results, overall_score |-> score,
         summary |-> s.text, has_total_agents |-> TRUE, total_agents |-> Len(results) ]

\* "if not agents" of line 141, never taken
NeverEmpty(ag) == FALSE

\* "if not agents" of line 141
NoAgents(ag) == ag = << >>

\* every evaluator started at once
AllAtOnce(n, seq) == 1..n

\* the evaluators whose call starts when the run begins: the first one in
\* the sequential loop, all of them under asyncio.gather
FirstStarted(n, seq) == IF seq THEN { 1 } \cap (1..n) ELSE 1..n

\* asyncio.gather without return_exceptions: the first exception leaves the
\* try block and agent_results stays empty
GatherFailFast(ag, tasks) ==
  IF \E j \in 1..Len(tasks) : tasks[j].raised THEN << >>
  ELSE [ j \in 1..Len(tasks) |-> AgentResult(ag[j], tasks[j]) ]

RECURSIVE ValidResults(_, _)
\* lines 174-188: the AgentResult members of gather's result list, in task order
ValidResults(ag, tasks) ==
  IF tasks = << >> THEN << >>
  ELSE IF Head(tasks).raised
       THEN ValidResults(Tail(ag), Tail(tasks))
       ELSE << AgentResult(Head(ag), Head(tasks)) >> \o ValidResults(Tail(ag), Tail(tasks))

----------------------------------------------------------------------------
(* AgentCoordinator: state *)

VARIABLES
  op,            \* the coordinator method under way: "select" or "analyze"
  vacancy,       \* its vacancy argument
  sequential,    \* analyze_candidate's sequential argument
  agentsArg,     \* analyze_candidate's agents argument
  agents,        \* the local agents list (the returned list for "select")
  pc,            \* position of the coroutine
  i,             \* index of the sequential loop, from 1
  tasks,         \* per evaluator: state of its analyze call and its outcome
  startOrder,    \* indices of the evaluators in the order their calls started
  startedAfter,  \* for each start, the event that came right before it
  agent_results, \* the local agent_results list
  overall_score, \* the local overall_score
  ret,           \* what analyze_candidate returned, or that it raised
  selOutcome,    \* outcome of the selection call of the language model
  sumOutcome,    \* outcome of the summary call of the language model
  lastEvent,     \* the latest of: a sleep, a language-model call ending
  llm_calls      \* language-model calls issued, by purpose

coordVars ==
  << op, vacancy, sequential, agentsArg, agents, pc, i, tasks, startOrder,
     startedAfter, agent_results, overall_score, ret, selOutcome, sumOutcome,
     lastEvent, llm_calls >>

inputVars == << op, vacancy, sequential, agentsArg >>

VARIABLES
  _vacancies,           \* MatchingService._vacancies: the identities, in insertion order
  _candidates,          \* MatchingService._candidates: the identities
  vacancy_collection,   \* identities in the vector index of vacancies
  candidate_collection, \* identities in the vector index of candidates
  skill_embeddings_cache, \* RerankingService.skill_embeddings_cache: key and embedded skill
  encoded,              \* the skills given to skill_encoder.encode since the cache was empty
  bulkPc,               \* position of find_all_vacancies_with_candidates
  use_ai,               \* its use_ai argument
  top_k,                \* its top_k argument
  iterSize,             \* size of _vacancies when the loop's iterator was made
  iterPos,              \* number of vacancies the iterator has yielded
  results,              \* the local results dictionary, in insertion order
  failed,               \* vacancies whose processing raised
  aiQueue,              \* candidates_for_ai of the vacancy under analysis
  aiIdx,                \* index in aiQueue of the candidate under analysis
  aiResults,            \* the local results list of find_matching_candidates
  last,                 \* the latest single query and how it ended
  panel_calls,          \* analyze_candidate calls the bulk call in hand has made
  aiPc,                 \* position of a find_matching_candidates call looked at alone
  ai_limit,             \* its ai_analysis_limit argument
  shortlist,            \* its screened_candidates
  analysed,             \* identities analyze_candidate was called for, in call order
  analyses,             \* what analyze_candidate did for them, in call order
  aiOut,                \* the list it returned
  fn,                   \* the function applied to arg, for a function looked at alone
  arg,                  \* its arguments, as they are now (a callee may mutate them)
  out                   \* its result

cacheVars == << skill_embeddings_cache, encoded >>

storeVars ==
  << _vacancies, _candidates, vacancy_collection, candidate_collection, cacheVars >>

bulkVars ==
  << bulkPc, use_ai, top_k, iterSize, iterPos, results, failed, aiQueue, aiIdx, aiResults,
     panel_calls >>

aiVars == << aiPc, ai_limit, shortlist, analysed, analyses, aiOut >>

pureVars == << fn, arg, out >>

matchVars == << storeVars, bulkVars, last, aiVars, pureVars >>

vars == << coordVars, matchVars >>

Pending == [st |-> "pending", raised |-> FALSE, score |-> 0, confidence |-> 0]
Running == [st |-> "running", raised |-> FALSE, score |-> 0, confidence |-> 0]
Done(o) == [st |-> "done", raised |-> o.raised, score |-> o.score, confidence |-> o.confidence]

NoSummary == [raised |-> FALSE, text |-> "not called"]

RECURSIVE Ascending(_, _)
\* the members of the set S of indices within 1..n, in ascending order
Ascending(S, n) ==
  IF n = 0 THEN << >>
  ELSE IF n \in S THEN Append(Ascending(S, n - 1), n) ELSE Ascending(S, n - 1)

\* no single query has been made yet
NoQuery ==
  [ op |-> "none", id |-> 0, found |-> FALSE, search_raised |-> FALSE,
    kind |-> "none", error |-> "", status |-> 0, results |-> << >>,
    search_calls |-> 0, screen_calls |-> 0, llm_calls |-> 0 ]

\* the matching service at rest, with an empty store
MatchIdle ==
  /\ _vacancies = << >>
  /\ _candidates = {}
  /\ vacancy_collection = {}
  /\ candidate_collection = {}
  /\ skill_embeddings_cache = {}
  /\ encoded = << >>
  /\ bulkPc = "idle"
  /\ use_ai = FALSE
  /\ top_k = 1
  /\ iterSize = 0
  /\ iterPos = 0
  /\ results = << >>
  /\ failed = {}
  /\ aiQueue = << >>
  /\ aiIdx = 0
  /\ aiResults = << >>
  /\ panel_calls = 0
  /\ last = NoQuery

\* no find_matching_candidates call is looked at alone
AiIdle ==
  /\ aiPc = "idle"
  /\ ai_limit = 0
  /\ shortlist = << >>
  /\ analysed = << >>
  /\ analyses = << >>
  /\ aiOut = << >>

\* no function is looked at alone
PureIdle ==
  /\ fn = "none"
  /\ arg = << >>
  /\ out = << >>

CoordInit ==
  /\ op \in { "select", "analyze" }
  /\ IF op = "select"
     THEN /\ vacancy \in Vacancy
          /\ sequential = TRUE
          /\ agentsArg = [given |-> FALSE, list |-> << >>]
     ELSE /\ vacancy \in CoordVacancies
          /\ sequential \in BOOLEAN
          /\ agentsArg \in AgentsArgs
  /\ agents = << >>
  /\ pc = "entry"
  /\ i = 0
  /\ tasks = << >>
  /\ startOrder = << >>
  /\ startedAfter = << >>
  /\ agent_results = << >>
  /\ overall_score = Frac(0, 1)
  /\ ret = NotReturned
  /\ selOutcome = NoSelection
  /\ sumOutcome = NoSummary
  /\ lastEvent = "none"
  /\ llm_calls = [select |-> 0, agent |-> 0, summary |-> 0]
  /\ MatchIdle
  /\ AiIdle
  /\ PureIdle

\* the coordinator at rest
CoordIdle ==
  /\ op = "none"
  /\ vacancy = [title |-> {}, description |-> {}, skills |-> {}, experience_years |-> {}]
  /\ sequential = TRUE
  /\ agentsArg = [given |-> FALSE, list |-> << >>]
  /\ agents = << >>
  /\ pc = "idle"
  /\ i = 0
  /\ tasks = << >>
  /\ startOrder = << >>
  /\ startedAfter = << >>
  /\ agent_results = << >>
  /\ overall_score = Frac(0, 1)
  /\ ret = NotReturned
  /\ selOutcome = NoSelection
  /\ sumOutcome = NoSummary
  /\ lastEvent = "none"
  /\ llm_calls = [select |-> 0, agent |-> 0, summary |-> 0]

\* the matching service after construction, the coordinator at rest
MatchInit ==
  /\ CoordIdle
  /\ MatchIdle
  /\ AiIdle
  /\ PureIdle

----------------------------------------------------------------------------
(* AgentCoordinator.analyze_candidate: control flow *)

\* a coordinator that asks for the summary at once
SummaryAtOnce(seq) == FALSE

\* "if sequential" of line 211: the sleep before the summary
sleeps_before_summary(seq) == seq

\* the loop left at the first evaluator that raises
BreakAfterRaise(k, n) == n + 1

\* "continue" of line 167: the loop goes on with the evaluator after the
\* k-th of n
next_after_raise(k, n) == k + 1

\* lines 193-215, entered with the finished agent_results
Finish(res, tk, so, sa, calls) ==
  /\ i' = 0
  /\ tasks' = tk
  /\ startOrder' = so
  /\ startedAfter' = sa
  /\ agent_results' = res
  /\ IF res = << >>
     THEN /\ pc' = "done"
          /\ ret' = EarlyReturn(AgentsErrorSummary)
          /\ llm_calls' = calls
          /\ UNCHANGED overall_score
     ELSE IF OverallScore(res).zero_division
     THEN /\ pc' = "done"
          /\ ret' = Raised
          /\ llm_calls' = calls
          /\ UNCHANGED overall_score
     ELSE /\ overall_score' = OverallScore(res)
          /\ UNCHANGED ret
          /\ IF sleeps_before_summary(sequential)
             THEN pc' = "sleep_summary" /\ llm_calls' = calls
             ELSE pc' = "summary_call" /\ llm_calls' = [calls EXCEPT !.summary = @ + 1]

\* head of the sequential loop for iteration k (line 154), le being the
\* event that came right before
Iterate(k, res, le, tk, so, sa, calls) ==
  IF k <= Len(agents)
  THEN /\ pc' = "seq_call"
       /\ i' = k
       /\ tasks' = [tk EXCEPT ![k] = Running]
       /\ startOrder' = Append(so, k)
       /\ startedAfter' = Append(sa, le)
       /\ agent_results' = res
       /\ llm_calls' = [calls EXCEPT !.agent = @ + 1]
       /\ UNCHANGED << overall_score, ret >>
  ELSE Finish(res, tk, so, sa, calls)

\* lines 141-171, entered with the agents list ag
Begin(ag, le, calls) ==
  IF NoAgents(ag)
  THEN /\ pc' = "done"
       /\ ret' = EarlyReturn(NoAgentsSummary)
       /\ llm_calls' = calls
       /\ UNCHANGED << i, tasks, startOrder, startedAfter, agent_results, overall_score >>
  ELSE IF Len(ag) = 0
  THEN Finish(<< >>, << >>, << >>, << >>, calls)
  ELSE LET first == FirstStarted(Len(ag), sequential)
       IN /\ pc' = IF sequential THEN "seq_call" ELSE "gather"
          /\ i' = IF sequential THEN 1 ELSE 0
          /\ tasks' = [ j \in 1..Len(ag) |-> IF j \in first THEN Running ELSE Pending ]
          /\ startOrder' = Ascending(first, Len(ag))
          /\ startedAfter' = [ j \in 1..Cardinality(first) |-> le ]
          /\ llm_calls' = [calls EXCEPT !.agent = @ + Cardinality(first)]
          /\ UNCHANGED << agent_results, overall_score, ret >>

\* select_agents_for_vacancy is called on its own: the prompt is built and
\* the selection call is issued (line 85)
SelectCall ==
  /\ op = "select" /\ pc = "entry"
  /\ pc' = "selecting"
  /\ llm_calls' = [llm_calls EXCEPT !.select = @ + 1]
  /\ UNCHANGED matchVars
  /\ UNCHANGED << inputVars, agents, i, tasks, startOrder, startedAfter, agent_results,
                  overall_score, ret, selOutcome, sumOutcome, lastEvent >>

\* analyze_candidate is entered (line 135)
Enter ==
  /\ op = "analyze" /\ pc = "entry"
  /\ IF ~agentsArg.given
     THEN /\ pc' = "selecting"
          /\ llm_calls' = [llm_calls EXCEPT !.select = @ + 1]
          /\ UNCHANGED << agents, i, tasks, startOrder, startedAfter, agent_results,
                          overall_score, ret >>
     ELSE /\ agents' = agentsArg.list
          /\ Begin(agentsArg.list, lastEvent, llm_calls)
  /\ UNCHANGED matchVars
  /\ UNCHANGED << inputVars, selOutcome, sumOutcome, lastEvent >>

\* the selection call ends and select_agents_for_vacancy returns
\* (lines 85-112); analyze_candidate goes on at line 137
SelectReturn ==
  /\ pc = "selecting"
  /\ \E o \in SelectionOutcomes :
       LET r == select_agents_for_vacancy(vacancy, o)
       IN /\ selOutcome' = o
          /\ lastEvent' = "select"
          /\ agents' = r.agents
          /\ IF r.raised
             THEN /\ pc' = "done" /\ ret' = Raised
                  /\ UNCHANGED << i, tasks, startOrder, startedAfter, agent_results,
                                  overall_score, llm_calls >>
             ELSE IF op = "select"
             THEN /\ pc' = "select_done"
                  /\ UNCHANGED << i, tasks, startOrder, startedAfter, agent_results,
                                  overall_score, ret, llm_calls >>
             ELSE IF sequential /\ r.agents # << >>
             THEN /\ pc' = "sleep_select"
                  /\ UNCHANGED << i, tasks, startOrder, startedAfter, agent_results,
                                  overall_score, ret, llm_calls >>
             ELSE Begin(r.agents, "select", llm_calls)
  /\ UNCHANGED matchVars
  /\ UNCHANGED << inputVars, sumOutcome >>

\* the sleep after the selection ends (line 139)
SleepAfterSelect ==
  /\ pc = "sleep_select"
  /\ lastEvent' = "sleep"
  /\ Begin(agents, "sleep", llm_calls)
  /\ UNCHANGED matchVars
  /\ UNCHANGED << inputVars, agents, selOutcome, sumOutcome >>

\* the analyze call of the sequential loop ends (lines 157-167)
SeqAgentReturn ==
  /\ pc = "seq_call"
  /\ \E o \in AgentOutcomes :
       LET tk == [tasks EXCEPT ![i] = Done(o)]
       IN IF ~o.raised
          THEN /\ lastEvent' = "eval_ok"
               /\ IF i - 1 < Len(agents) - 1
                  THEN /\ pc' = "seq_sleep"
                       /\ tasks' = tk
                       /\ agent_results' = Append(agent_results, AgentResult(agents[i], o))
                       /\ UNCHANGED << i, startOrder, startedAfter, overall_score, ret,
                                       llm_calls >>
                  ELSE Finish(Append(agent_results, AgentResult(agents[i], o)), tk,
                              startOrder, startedAfter, llm_calls)
          ELSE /\ lastEvent' = "eval_raise"
               /\ Iterate(next_after_raise(i, Len(agents)), agent_results, "eval_raise", tk, startOrder,
                          startedAfter, llm_calls)
  /\ UNCHANGED matchVars
  /\ UNCHANGED << inputVars, agents, selOutcome, sumOutcome >>

\* the sleep before the next evaluator ends (line 163)
SeqSleep ==
  /\ pc = "seq_sleep"
  /\ lastEvent' = "sleep"
  /\ Iterate(i + 1, agent_results, "sleep", tasks, startOrder, startedAfter, llm_calls)
  /\ UNCHANGED matchVars
  /\ UNCHANGED << inputVars, agents, selOutcome, sumOutcome >>

\* one of the gathered analyze calls ends (line 174)
GatherTaskReturn ==
  /\ pc = "gather"
  /\ \E j \in 1..Len(tasks) : \E o \in AgentOutcomes :
       /\ tasks[j].st = "running"
       /\ tasks' = [tasks EXCEPT ![j] = Done(o)]
       /\ lastEvent' = IF o.raised THEN "eval_raise" ELSE "eval_ok"
  /\ UNCHANGED matchVars
  /\ UNCHANGED << inputVars, agents, pc, i, startOrder, startedAfter, agent_results,
                  overall_score, ret, selOutcome, sumOutcome, llm_calls >>

\* asyncio.gather returns once every call has ended (lines 174-188)
GatherJoin ==
  /\ pc = "gather"
  /\ \A j \in 1..Len(tasks) : tasks[j].st = "done"
  /\ Finish(ValidResults(agents, tasks), tasks, startOrder, startedAfter, llm_calls)
  /\ UNCHANGED matchVars
  /\ UNCHANGED << inputVars, agents, selOutcome, sumOutcome, lastEvent >>

\* the sleep before the summary ends and the summary call is issued
\* (lines 213, 255)
SleepBeforeSummary ==
  /\ pc = "sleep_summary"
  /\ lastEvent' = "sleep"
  /\ pc' = "summary_call"
  /\ llm_calls' = [llm_calls EXCEPT !.summary = @ + 1]
  /\ UNCHANGED matchVars
  /\ UNCHANGED << inputVars, agents, i, tasks, startOrder, startedAfter, agent_results,
                  overall_score, ret, selOutcome, sumOutcome >>

\* the summary call ends and analyze_candidate returns (lines 215-226)
SummaryReturn ==
  /\ pc = "summary_call"
  /\ \E o \in SummaryOutcomes :
       /\ sumOutcome' = o
       /\ ret' = FullReturn(agent_results, overall_score, _generate_summary(o))
  /\ lastEvent' = "summary"
  /\ pc' = "done"
  /\ UNCHANGED matchVars
  /\ UNCHANGED << inputVars, agents, i, tasks, startOrder, startedAfter, agent_results,
                  overall_score, selOutcome, llm_calls >>

CoordNext ==
  \/ SelectCall
  \/ Enter
  \/ SelectReturn
  \/ SleepAfterSelect
  \/ SeqAgentReturn
  \/ SeqSleep
  \/ GatherTaskReturn
  \/ GatherJoin
  \/ SleepBeforeSummary
  \/ SummaryReturn

SpecCoord == CoordInit /\ [][CoordNext]_vars

----------------------------------------------------------------------------
(* MatchingService, RAGService: values *)
(* Vector, screening and evaluator scores are in hundredths here, combined *)
(* scores in thousandths.                                                   *)

\* identities of the candidates that get created (vacancies get 1, 2, ...)
CandidateIds == { 101, 102 }

\* similarity scores of the vector search, screening scores of the
\* screening service, overall scores of the evaluator panel, cross-encoder
\* scores after the sigmoid
VectorVals == { 50, 90 }
ScreenVals == { 20, 60 }
PanelVals == { 30, 80 }
RerankVals == { 50, 100 }

\* ai_analysis_limit of the bulk call and its default for a single query,
\* and the minimum screening scores
BulkAiLimit == 2
DefaultAiLimit == 2
AiMinScreening == 40
NoAiMinScreening == 30

Min(a, b) == IF a < b THEN a ELSE b

Take(s, n) == SubSeq(s, 1, Min(n, Len(s)))

\* x placed behind every member of the descending list whose key is >= its own
InsertDesc(x, sorted, key) ==
  LET p == Cardinality({ j \in 1..Len(sorted) : sorted[j][key] >= x[key] })
  IN SubSeq(sorted, 1, p) \o << x >> \o SubSeq(sorted, p + 1, Len(sorted))

\* list.sort(key=lambda x: x[key], reverse=True): descending and stable
SortDesc(s, key) ==
  LET f[k \in 0..Len(s)] == IF k = 0 THEN << >> ELSE InsertDesc(s[k], f[k - 1], key)
  IN f[Len(s)]

IsDescending(s, key) == \A k \in 1..(Len(s) - 1) : s[k][key] >= s[k + 1][key]

\* a list of numbers that does not increase
NonIncreasing(f) == \A k \in 1..(Len(f) - 1) : f[k] >= f[k + 1]

\* the orderings of the members of S
Orderings(S) == { q \in DistinctSeqs(S, Cardinality(S)) : Len(q) = Cardinality(S) }

\* what ChromaRepository.search_candidates returns for n_results = n: the
\* nearest min(n, count) members of the collection, nearest first, each with
\* its similarity; the screening score the screening service will compute
\* for the candidate is carried along
HitLists(collection, n) ==
  UNION { { [ j \in 1..Len(q) |->
                [id |-> q[j], score |-> sc[j], screening |-> scr[j]] ] :
              sc \in { f \in [ 1..Len(q) -> VectorVals ] : NonIncreasing(f) },
              scr \in [ 1..Len(q) -> ScreenVals ] } :
          q \in { Take(o, n) : o \in Orderings(collection) } }

SearchOutcomes(collection, n) ==
  { [raised |-> TRUE, hits |-> << >>] } \cup
  { [raised |-> FALSE, hits |-> h] : h \in HitLists(collection, n) }

\* outcomes of CrossEncoder.predict on k pairs: it raises, or gives a score each
RerankOutcomes(k) ==
  { [raised |-> TRUE, scores |-> << >>] } \cup
  { [raised |-> FALSE, scores |-> r] : r \in [ 1..k -> RerankVals ] }

\* the blend without the weight of the original score
BlendUnweighted(original_score, rerank_score) ==
  original_score + (rerank_score * 6) \div 10

\* line 89: 40% original vector score + 60% rerank score
blend(original_score, rerank_score) ==
  (original_score * 4 + rerank_score * 6) \div 10

\* lines 84-89: the records of candidates_to_rerank as the loop leaves them,
\* each with its rerank_score and its blended score
reranked_records(candidates_to_rerank, outcome) ==
  [ j \in 1..Len(candidates_to_rerank) |->
      ("rerank_score" :> outcome.scores[j]) @@
      [ candidates_to_rerank[j] EXCEPT !.score = blend(@, outcome.scores[j]) ] ]

\* rerank_candidates whose except branch returns the whole input list
RerankFailureKeepsAll(candidates, k, outcome) ==
  IF candidates = << >> THEN << >>
  ELSE IF outcome.raised THEN candidates
  ELSE SortDesc(reranked_records(Take(candidates, k), outcome), "score")

\* rerank_candidates (reranking_service.py lines 61-100)
rerank_candidates(candidates, k, outcome) ==
  LET candidates_to_rerank == Take(candidates, k)
  IN IF candidates = << >> THEN << >>
     ELSE IF outcome.raised THEN candidates_to_rerank
     ELSE SortDesc(reranked_records(candidates_to_rerank, outcome), "score")

\* filter_candidates without the sort of line 365
FilterUnsorted(candidates_with_scores, min_screening_score, k) ==
  LET screened_candidates[j \in 0..Len(candidates_with_scores)] ==
        IF j = 0 THEN << >>
        ELSE IF candidates_with_scores[j].screening >= min_screening_score
        THEN Append(screened_candidates[j - 1], candidates_with_scores[j])
        ELSE screened_candidates[j - 1]
  IN Take(screened_candidates[Len(candidates_with_scores)], k)

\* filter_candidates (screening_service.py lines 334-376)
filter_candidates(candidates_with_scores, min_screening_score, k) ==
  LET screened_candidates[j \in 0..Len(candidates_with_scores)] ==
        IF j = 0 THEN << >>
        ELSE IF candidates_with_scores[j].screening >= min_screening_score
        THEN Append(screened_candidates[j - 1], candidates_with_scores[j])
        ELSE screened_candidates[j - 1]
  IN Take(SortDesc(screened_candidates[Len(candidates_with_scores)], "screening"), k)

\* what analyze_candidate does for the pipeline: it raises, or returns the
\* three-key dictionary of its two early returns, or the full dictionary
\* with total_agents
AnalysisOutcomes ==
  { [raised |-> TRUE, has_total_agents |-> FALSE, overall_score |-> 0, total_agents |-> 0],
    [raised |-> FALSE, has_total_agents |-> FALSE, overall_score |-> 0, total_agents |-> 0] }
  \cup
  \* the full return is reached with a list that is not empty
  \* (agent_coordinator.py lines 193, 225): one evaluator with a low score,
  \* two with a high one
  { [raised |-> FALSE, has_total_agents |-> TRUE, overall_score |-> 30, total_agents |-> 1],
    [raised |-> FALSE, has_total_agents |-> TRUE, overall_score |-> 80, total_agents |-> 2] }

\* a result dictionary of the AI path (rag_service.py lines 197-217)
AiMatch(h, a) ==
  [ candidate_id |-> h.id, vector_score |-> h.score, screening_score |-> h.screening,
    agent_score |-> a.overall_score,
    combined_score |-> h.screening * 3 + h.score * 2 + a.overall_score * 5,
    total_agents |-> a.total_agents ]

\* a result dictionary of the no-AI path (rag_service.py lines 287-329)
NoAiMatch(h) ==
  [ candidate_id |-> h.id, vector_score |-> h.score, screening_score |-> h.screening,
    agent_score |-> 0,
    combined_score |-> h.screening * 6 + h.score * 4,
    total_agents |-> 0 ]

\* find_matching_candidates_without_ai after the search (lines 255-334)
find_matching_candidates_without_ai(hits, k, rerank) ==
  LET similar_candidates == rerank_candidates(hits, Min(Len(hits), k * 2), rerank)
      screened == filter_candidates(similar_candidates, NoAiMinScreening, k)
  IN IF hits = << >> THEN << >>
     ELSE SortDesc([ j \in 1..Len(screened) |-> NoAiMatch(screened[j]) ], "combined_score")

\* MatchingResult(entity_id, score, details) of one candidate match, details
\* cut down to agent_score and total_agents
MatchingResult(m) ==
  [ entity_id |-> m.candidate_id, score |-> m.combined_score,
    agent_score |-> m.agent_score, total_agents |-> m.total_agents ]

\* the bulk entry with ranks counted from 0
RanksFromZero(v, matches) ==
  [ vacancy_id |-> v, has_error |-> FALSE, candidates_count |-> Len(matches),
    has_ranked |-> TRUE,
    ranked_candidates |->
      [ j \in 1..Len(matches) |->
          [rank |-> j - 1, candidate_id |-> matches[j].candidate_id,
           score |-> matches[j].combined_score] ],
    candidates |-> [ j \in 1..Len(matches) |-> MatchingResult(matches[j]) ] ]

\* the bulk entry of a vacancy that was processed (lines 239-291)
PopulatedEntry(v, matches) ==
  [ vacancy_id |-> v, has_error |-> FALSE, candidates_count |-> Len(matches),
    has_ranked |-> TRUE,
    ranked_candidates |->
      [ j \in 1..Len(matches) |->
          [rank |-> j, candidate_id |-> matches[j].candidate_id,
           score |-> matches[j].combined_score] ],
    candidates |-> [ j \in 1..Len(matches) |-> MatchingResult(matches[j]) ] ]

\* the bulk entry of the except branch (lines 297-306)
ErrorEntry(v) ==
  [ vacancy_id |-> v, has_error |-> TRUE, candidates_count |-> 0,
    has_ranked |-> FALSE, ranked_candidates |-> << >>, candidates |-> << >> ]

\* the rows of one entry in the ranking summary of the bulk route
\* (api/routes/matching.py lines 222-231); the title stands as the vacancy's
\* identity, the name as the candidate's
summary_rows(entry) ==
  IF entry.has_error \/ ~entry.has_ranked THEN << >>
  ELSE [ j \in 1..Len(entry.ranked_candidates) |->
           [ job_title |-> entry.vacancy_id,
             rank |-> entry.ranked_candidates[j].rank,
             candidate_name |-> entry.ranked_candidates[j].candidate_id,
             score |-> entry.ranked_candidates[j].score ] ]

\* ranking_summary of get_all_vacancies_with_candidates (lines 218-231)
ranking_summary(entries) ==
  LET f[k \in 0..Len(entries)] ==
        IF k = 0 THEN << >> ELSE f[k - 1] \o summary_rows(entries[k])
  IN f[Len(entries)]

\* every screened candidate is analysed, whatever ai_analysis_limit says
AnalyseWholeShortlist(hits, k, ai_analysis_limit) ==
  IF hits = << >> THEN << >> ELSE filter_candidates(hits, AiMinScreening, k)

\* candidates_for_ai of find_matching_candidates (rag_service.py lines 139-154)
candidates_for_ai(hits, k, ai_analysis_limit) ==
  IF hits = << >> THEN << >>
  ELSE Take(filter_candidates(hits, AiMinScreening, k), ai_analysis_limit)

\* the loop reading total_agents with a default of 0
AppendWithDefault(res, h, a) ==
  IF a.raised THEN res ELSE Append(res, AiMatch(h, a))

\* one iteration of the loop of lines 160-221: the result is appended unless
\* analyze_candidate raised or its dictionary lacks total_agents (KeyError)
AppendAnalysed(res, h, a) ==
  IF a.raised \/ ~a.has_total_agents THEN res ELSE Append(res, AiMatch(h, a))

\* find_matching_candidates after the search (lines 133-226), outs[j] being
\* what analyze_candidate does for the j-th of candidates_for_ai
find_matching_candidates(hits, k, ai_analysis_limit, outs) ==
  LET queue == candidates_for_ai(hits, k, ai_analysis_limit)
      f[j \in 0..Len(queue)] ==
        IF j = 0 THEN << >> ELSE AppendAnalysed(f[j - 1], queue[j], outs[j])
  IN SortDesc(f[Len(queue)], "combined_score")

\* what ChromaRepository.search_vacancies returns for n_results = n
VacancyHitLists(collection, n) ==
  UNION { { [ j \in 1..Len(q) |-> [id |-> q[j], score |-> sc[j]] ] :
              sc \in { f \in [ 1..Len(q) -> VectorVals ] : NonIncreasing(f) } } :
          q \in { Take(o, n) : o \in Orderings(collection) } }

VacancySearchOutcomes(collection, n) ==
  { [raised |-> TRUE, hits |-> << >>] } \cup
  { [raised |-> FALSE, hits |-> h] : h \in VacancyHitLists(collection, n) }

\* outcomes of GeminiClient.analyze_matching: it raises, or gives a score
MatchingOutcomes == { [raised |-> TRUE, score |-> 0] } \cup [ raised : { FALSE }, score : PanelVals ]

\* find_matching_vacancies after the search (rag_service.py lines 359-392);
\* the combined score is kept doubled, (vector + ai) / 2 being a half-integer
find_matching_vacancies(hits, k, outs) ==
  LET queue == Take(hits, k)
      f[j \in 0..Len(queue)] ==
        IF j = 0 THEN << >>
        ELSE IF outs[j].raised THEN f[j - 1]
        ELSE Append(f[j - 1],
                    [ candidate_id |-> queue[j].id, vector_score |-> queue[j].score,
                      ai_score |-> outs[j].score,
                      combined_score |-> queue[j].score + outs[j].score ])
  IN SortDesc(f[Len(queue)], "combined_score")

\* the route's answer to a query that returned or raised (matching.py lines
\* 59-72 and 115-128)
route_status(kind, error) ==
  IF kind = "return" THEN 200 ELSE IF error = "ValueError" THEN 404 ELSE 500

\* a query that ended by raising
QueryRaised(name, id, found, error, searches) ==
  [ op |-> name, id |-> id, found |-> found, search_raised |-> found,
    kind |-> "raise", error |-> error, status |-> route_status("raise", error),
    results |-> << >>, search_calls |-> searches, screen_calls |-> 0, llm_calls |-> 0 ]

\* MatchingResult of one vacancy match (matching_service.py lines 176-199)
VacancyMatchingResult(m) ==
  [ entity_id |-> m.candidate_id, score |-> m.combined_score, ai_score |-> m.ai_score ]

\* a query that returned the matches
QueryReturned(name, id, matches, screens, calls) ==
  [ op |-> name, id |-> id, found |-> TRUE, search_raised |-> FALSE,
    kind |-> "return", error |-> "", status |-> route_status("return", ""),
    results |-> [ j \in 1..Len(matches) |->
                    IF name = "find_candidates_for_vacancy"
                    THEN MatchingResult(matches[j])
                    ELSE VacancyMatchingResult(matches[j]) ],
    search_calls |-> 1, screen_calls |-> screens, llm_calls |-> calls ]

\* a lookup that misses, answered with an empty list
NotFoundAsEmpty(store, vacancy_id, k, ai_analysis_limit, search, outs) ==
  IF vacancy_id \notin SeqRange(store)
  THEN [ QueryReturned("find_candidates_for_vacancy", vacancy_id, << >>, 0, 0)
           EXCEPT !.found = FALSE, !.search_calls = 0 ]
  ELSE IF search.raised
  THEN QueryRaised("find_candidates_for_vacancy", vacancy_id, TRUE, "SearchError", 1)
  ELSE QueryReturned("find_candidates_for_vacancy", vacancy_id,
                     find_matching_candidates(search.hits, k, ai_analysis_limit, outs),
                     Len(search.hits),
                     Len(candidates_for_ai(search.hits, k, ai_analysis_limit)))

\* MatchingService.find_candidates_for_vacancy (lines 98-145), store being
\* the keys of _vacancies, search and outs what the collaborators do if called
find_candidates_for_vacancy(store, vacancy_id, k, ai_analysis_limit, search, outs) ==
  IF vacancy_id \notin SeqRange(store)
  THEN QueryRaised("find_candidates_for_vacancy", vacancy_id, FALSE, "ValueError", 0)
  ELSE IF search.raised
  THEN QueryRaised("find_candidates_for_vacancy", vacancy_id, TRUE, "SearchError", 1)
  ELSE QueryReturned("find_candidates_for_vacancy", vacancy_id,
                     find_matching_candidates(search.hits, k, ai_analysis_limit, outs),
                     Len(search.hits),
                     Len(candidates_for_ai(search.hits, k, ai_analysis_limit)))

\* MatchingService.find_vacancies_for_candidate (lines 162-204), store being
\* the keys of _candidates
find_vacancies_for_candidate(store, candidate_id, k, search, outs) ==
  IF candidate_id \notin store
  THEN QueryRaised("find_vacancies_for_candidate", candidate_id, FALSE, "ValueError", 0)
  ELSE IF search.raised
  THEN QueryRaised("find_vacancies_for_candidate", candidate_id, TRUE, "SearchError", 1)
  ELSE QueryReturned("find_vacancies_for_candidate", candidate_id,
                     find_matching_vacancies(search.hits, k, outs),
                     0, Len(Take(search.hits, k)))

\* identities a query may be made with: the stored ones and some that are not
QueryVacancyIds == 1..(MaxVacancies + 1)
QueryCandidateIds == CandidateIds \cup { 100 }
TopKs == { 1, 2 }

----------------------------------------------------------------------------
(* MatchingService: handlers *)
(* The handlers are coroutines of one event loop. A handler runs alone up to *)
(* a point where it really suspends; of the awaits of the matching pipeline *)
(* only the pacing sleeps of analyze_candidate and the sleep between two     *)
(* candidates suspend, the vector index and the language model being called *)
(* synchronously inside their async wrappers.                                *)

\* the bulk call ignores its use_ai argument
AlwaysPanel(ai) == TRUE

\* line 227: the evaluator panel is used only when use_ai is set
uses_panel(ai) == ai

BulkAtRest == bulkPc \in { "idle", "done", "raised" }

\* create_vacancy (lines 41-46): the store is written, then the vector index,
\* whose add may raise
CreateVacancy ==
  /\ bulkPc # "iter"
  /\ Len(_vacancies) < MaxVacancies
  /\ \E indexed \in BOOLEAN :
       LET id == Len(_vacancies) + 1
       IN /\ _vacancies' = Append(_vacancies, id)
          /\ vacancy_collection' = IF indexed THEN vacancy_collection \cup { id }
                                   ELSE vacancy_collection
  /\ UNCHANGED << _candidates, candidate_collection, cacheVars, bulkVars, last, coordVars,
                  aiVars, pureVars >>

\* create_candidate (lines 58-63)
CreateCandidate ==
  /\ bulkPc # "iter"
  /\ \E id \in CandidateIds \ _candidates : \E indexed \in BOOLEAN :
       /\ _candidates' = _candidates \cup { id }
       /\ candidate_collection' = IF indexed THEN candidate_collection \cup { id }
                                  ELSE candidate_collection
  /\ UNCHANGED << _vacancies, vacancy_collection, cacheVars, bulkVars, last, coordVars,
                  aiVars, pureVars >>

\* find_all_vacancies_with_candidates is called (lines 221-225): the iterator
\* over _vacancies.values() is made
BulkStart ==
  /\ BulkAtRest
  /\ bulkPc' = "iter"
  /\ use_ai' \in BOOLEAN
  /\ top_k' \in TopKs
  /\ iterSize' = Len(_vacancies)
  /\ iterPos' = 0
  /\ results' = << >>
  /\ failed' = {}
  /\ panel_calls' = 0
  /\ UNCHANGED << aiQueue, aiIdx, aiResults, storeVars, last, coordVars, aiVars, pureVars >>

\* the entry of the vacancy in hand is stored and the loop goes on (line 284
\* or 299)
StoreEntry(entry) ==
  /\ results' = Append(results, entry)
  /\ iterPos' = iterPos + 1
  /\ bulkPc' = "iter"
  /\ aiQueue' = << >>
  /\ aiIdx' = 0
  /\ aiResults' = << >>

\* the for statement asks the iterator for the next vacancy (line 225) and
\* the body runs up to its first suspension. A dictionary whose size differs
\* from the size at the iterator's creation makes the iterator raise
\* RuntimeError, outside the try of line 226.
BulkNext ==
  /\ bulkPc = "iter"
  /\ IF Len(_vacancies) # iterSize
     THEN /\ bulkPc' = "raised"
          /\ UNCHANGED << iterPos, results, failed, aiQueue, aiIdx, aiResults, panel_calls >>
     ELSE IF iterPos = iterSize
     THEN /\ bulkPc' = "done"
          /\ UNCHANGED << iterPos, results, failed, aiQueue, aiIdx, aiResults, panel_calls >>
     ELSE LET v == _vacancies[iterPos + 1]
          IN \E search \in SearchOutcomes(candidate_collection, top_k * 5) :
               IF search.raised
               THEN /\ StoreEntry(ErrorEntry(v))
                    /\ failed' = failed \cup { v }
                    /\ UNCHANGED panel_calls
               ELSE IF ~uses_panel(use_ai)
               THEN /\ \E rerank \in RerankOutcomes(Min(Len(search.hits), top_k * 2)) :
                         StoreEntry(PopulatedEntry(v,
                           find_matching_candidates_without_ai(search.hits, top_k, rerank)))
                    /\ UNCHANGED << failed, panel_calls >>
               ELSE IF candidates_for_ai(search.hits, top_k, BulkAiLimit) = << >>
               THEN /\ StoreEntry(PopulatedEntry(v, << >>))
                    /\ UNCHANGED << failed, panel_calls >>
               ELSE /\ bulkPc' = "analysing"
                    /\ aiQueue' = candidates_for_ai(search.hits, top_k, BulkAiLimit)
                    /\ aiIdx' = 1
                    /\ aiResults' = << >>
                    /\ panel_calls' = panel_calls + 1
                    /\ UNCHANGED << iterPos, results, failed >>
  /\ UNCHANGED << use_ai, top_k, iterSize, storeVars, last, coordVars, aiVars, pureVars >>

\* analyze_candidate ends for the candidate in hand (rag_service.py lines
\* 178-221) and is called for the next one; after the last one the matches
\* are sorted and the entry is made
BulkAnalysisReturn ==
  /\ bulkPc = "analysing"
  /\ \E a \in AnalysisOutcomes :
       LET res == AppendAnalysed(aiResults, aiQueue[aiIdx], a)
       IN IF aiIdx < Len(aiQueue)
          THEN /\ aiIdx' = aiIdx + 1
               /\ aiResults' = res
               /\ panel_calls' = panel_calls + 1
               /\ UNCHANGED << bulkPc, iterPos, results, aiQueue >>
          ELSE /\ StoreEntry(PopulatedEntry(_vacancies[iterPos + 1],
                                            SortDesc(res, "combined_score")))
               /\ UNCHANGED panel_calls
  /\ UNCHANGED << use_ai, top_k, iterSize, failed, storeVars, last, coordVars, aiVars, pureVars >>

BulkStep ==
  \/ CreateVacancy
  \/ CreateCandidate
  \/ BulkStart
  \/ BulkNext
  \/ BulkAnalysisReturn

SpecBulk == MatchInit /\ [][BulkStep]_vars

\* the collaborators are given an outcome only where the handler calls them
NoSearch == [raised |-> FALSE, hits |-> << >>]

\* a single query for the candidates of a vacancy, from its call to its end,
\* as the route makes it (ai_analysis_limit at its default)
FindCandidatesForVacancy ==
  /\ \E vacancy_id \in QueryVacancyIds : \E k \in TopKs :
       IF find_candidates_for_vacancy(_vacancies, vacancy_id, k, DefaultAiLimit,
                                      NoSearch, << >>).search_calls = 0
       THEN last' = find_candidates_for_vacancy(_vacancies, vacancy_id, k, DefaultAiLimit,
                                                NoSearch, << >>)
       ELSE \E search \in SearchOutcomes(candidate_collection, k * 5) :
            \E outs \in [ 1..Len(candidates_for_ai(search.hits, k, DefaultAiLimit)) ->
                             AnalysisOutcomes ] :
              last' = find_candidates_for_vacancy(_vacancies, vacancy_id, k, DefaultAiLimit,
                                                  search, outs)
  /\ UNCHANGED << storeVars, bulkVars, coordVars, aiVars, pureVars >>

\* a single query for the vacancies of a candidate, from its call to its end
FindVacanciesForCandidate ==
  /\ \E candidate_id \in QueryCandidateIds : \E k \in TopKs :
       IF find_vacancies_for_candidate(_candidates, candidate_id, k,
                                       NoSearch, << >>).search_calls = 0
       THEN last' = find_vacancies_for_candidate(_candidates, candidate_id, k,
                                                 NoSearch, << >>)
       ELSE \E search \in VacancySearchOutcomes(vacancy_collection, k * 2) :
            \E outs \in [ 1..Len(Take(search.hits, k)) -> MatchingOutcomes ] :
              last' = find_vacancies_for_candidate(_candidates, candidate_id, k, search, outs)
  /\ UNCHANGED << storeVars, bulkVars, coordVars, aiVars, pureVars >>

QueryNext ==
  \/ CreateVacancy
  \/ CreateCandidate
  \/ FindCandidatesForVacancy
  \/ FindVacanciesForCandidate

SpecQuery == MatchInit /\ [][QueryNext]_vars

----------------------------------------------------------------------------
(* RAGService.find_matching_candidates, looked at alone *)

\* values of the ai_analysis_limit argument
AiLimits == 0..DefaultAiLimit

AiAtRest == aiPc \in { "idle", "done", "raised" }

\* the other variables of the bulk call stay as they are
AiFrame ==
  UNCHANGED << bulkPc, use_ai, iterSize, iterPos, results, failed, panel_calls,
               storeVars, last, coordVars, pureVars >>

\* the call, its search and its screening (lines 125-157), up to the first
\* analyze_candidate call (line 178)
AiSearch ==
  /\ AiAtRest
  /\ \E k \in TopKs : \E limit \in AiLimits :
     \E search \in SearchOutcomes(candidate_collection, k * 5) :
       LET queue == candidates_for_ai(search.hits, k, limit)
       IN /\ top_k' = k
          /\ ai_limit' = limit
          /\ shortlist' = IF search.hits = << >> THEN << >>
                          ELSE filter_candidates(search.hits, AiMinScreening, k)
          /\ aiResults' = << >>
          /\ aiOut' = << >>
          /\ analyses' = << >>
          /\ IF search.raised
             THEN aiPc' = "raised" /\ aiQueue' = << >> /\ aiIdx' = 0 /\ analysed' = << >>
             ELSE IF queue = << >>
             THEN aiPc' = "done" /\ aiQueue' = << >> /\ aiIdx' = 0 /\ analysed' = << >>
             ELSE /\ aiPc' = "analysing"
                  /\ aiQueue' = queue
                  /\ aiIdx' = 1
                  /\ analysed' = << queue[1].id >>
  /\ AiFrame

\* analyze_candidate ends for the candidate in hand (lines 178-221). When it
\* returned and a candidate is left, the call sleeps (line 194); when it
\* raised, the loop goes on at once; after the last candidate the results
\* are sorted and returned (lines 223-226). The append of line 205 follows
\* the sleep in the code; nothing reads results in between.
AiAnalysisReturn ==
  /\ aiPc = "analysing"
  /\ \E a \in AnalysisOutcomes :
       LET res == AppendAnalysed(aiResults, aiQueue[aiIdx], a)
       IN /\ aiResults' = res
          /\ analyses' = Append(analyses, a)
          /\ IF aiIdx = Len(aiQueue)
             THEN /\ aiPc' = "done"
                  /\ aiOut' = SortDesc(res, "combined_score")
                  /\ UNCHANGED << aiIdx, analysed >>
             ELSE IF a.raised
             THEN /\ aiIdx' = aiIdx + 1
                  /\ analysed' = Append(analysed, aiQueue[aiIdx + 1].id)
                  /\ UNCHANGED << aiPc, aiOut >>
             ELSE /\ aiPc' = "sleeping"
                  /\ UNCHANGED << aiIdx, analysed, aiOut >>
  /\ UNCHANGED << top_k, ai_limit, shortlist, aiQueue >>
  /\ AiFrame

\* the sleep between two candidates ends and analyze_candidate is called for
\* the next one
AiSleepEnds ==
  /\ aiPc = "sleeping"
  /\ aiPc' = "analysing"
  /\ aiIdx' = aiIdx + 1
  /\ analysed' = Append(analysed, aiQueue[aiIdx + 1].id)
  /\ UNCHANGED << top_k, ai_limit, shortlist, aiQueue, aiResults, aiOut, analyses >>
  /\ AiFrame

AiNext ==
  \/ CreateCandidate
  \/ AiSearch
  \/ AiAnalysisReturn
  \/ AiSleepEnds

SpecAiPath == MatchInit /\ [][AiNext]_vars

----------------------------------------------------------------------------
(* ScreeningService *)
(* Component scores are in thousandths. The vector score is in 1/40000, so  *)
(* that 0.4 * vector_score is whole in 1/100000, the unit of the composite  *)
(* screening score.                                                         *)

\* skills, which are also words of summaries and descriptions and are among
\* the important keywords of _extract_keywords
SkillWords == { "python", "sql" }

\* a location is the sequence of its words; the empty one is the empty string
CandidateLocations ==
  { << >>, << "moscow" >>, << "remote" >>, << "kazan", "relocation" >> }

VacancyLocations == { << >>, << "moscow" >>, << "remote" >> }

CandidateYears == { 0, 3, 5 }

\* vector scores 0, 0.24975, 0.25, 0.74975, 0.75 and 1
ScreenVectorVals == { 0, 9990, 10000, 29990, 30000, 40000 }

\* skills as they are written: str.lower() makes "Python" and "python" one
SkillStrings == { "Python", "python", "sql" }

\* str.lower() of a word
lower(word) ==
  CASE word = "Python" -> "python"
    [] word = "Moscow" -> "moscow"
    [] word = "Remote" -> "remote"
    [] OTHER -> word

\* str.lower() of a text
lower_text(text) == [ j \in 1..Len(text) |-> lower(text[j]) ]

\* part in text
is_in(part, text) ==
  \E k \in 0..(Len(text) - Len(part)) : SubSeq(text, k + 1, k + Len(part)) = part

\* {skill.lower() for skill in skills}
lower_set(skills) == { lower(skills[j]) : j \in 1..Len(skills) }

\* the skill lists of the screened candidates and vacancies
ScreenSkillLists == { << >>, << "python" >>, << "sql" >>, << "Python", "sql" >> }

\* Candidate as filter_candidates builds it from the metadata (lines 341-354)
ScreenCandidates ==
  [ skills : ScreenSkillLists, summary : { {}, { "python" } },
    experience_years : CandidateYears, location : CandidateLocations ]

ScreenVacancies ==
  [ skills : ScreenSkillLists, description : { {}, { "sql" } },
    experience_years : { {}, { 3 }, { 5 } }, location : VacancyLocations ]

\* what calculate_semantic_skill_match does with the model's similarities:
\* it raises, or finds the required skills at these places of the list near
\* enough to some skill of the candidate
SemanticOutcomes(required_skills) ==
  { [raised |-> TRUE, matched |-> {}] } \cup
  { [raised |-> FALSE, matched |-> m] : m \in SUBSET (1..Len(required_skills)) }

\* match_score of calculate_semantic_skill_match (reranking_service.py lines
\* 124-181)
match_score(candidate_skills, required_skills, semantic) ==
  IF required_skills = << >> THEN 1000
  ELSE IF candidate_skills = << >> THEN 0
  ELSE (Cardinality(semantic.matched) * 1000) \div Len(required_skills)

Max(a, b) == IF a > b THEN a ELSE b

Abs(a) == IF a < 0 THEN 0 - a ELSE a

\* the semantic score with the bonus and without the min of line 81
BonusUnclamped(score, exact_matches) == score + Cardinality(exact_matches) * 50

\* lines 79-81: +5% for every exact match, at most 1.0
with_bonus(score, exact_matches) ==
  IF exact_matches = {} THEN score
  ELSE Min(1000, score + Cardinality(exact_matches) * 50)

\* a fallback that counts the required skills as they are listed
FractionOfList(candidate_skills, required_skills) ==
  (Cardinality(lower_set(candidate_skills) \cap lower_set(required_skills)) * 1000)
    \div Len(required_skills)

\* lines 95-99: the basic comparison of the lower-cased sets
basic_match(candidate_skills, required_skills) ==
  (Cardinality(lower_set(candidate_skills) \cap lower_set(required_skills)) * 1000)
    \div Cardinality(lower_set(required_skills))

\* calculate_hard_skills_match (lines 61-109)
calculate_hard_skills_match(candidate_skills, required_skills, use_semantic_matching, semantic) ==
  IF required_skills = << >> THEN 1000
  ELSE IF use_semantic_matching /\ ~semantic.raised
  THEN with_bonus(match_score(candidate_skills, required_skills, semantic),
                  lower_set(candidate_skills) \cap lower_set(required_skills))
  ELSE basic_match(candidate_skills, required_skills)

\* an experience match in which over-qualification decays like
\* under-qualification
ExperienceOneDecay(candidate_years, required_years) ==
  LET diff == IF candidate_years < required_years
              THEN required_years - candidate_years
              ELSE candidate_years - required_years
  IN IF required_years = 0 THEN 1000
     ELSE IF diff = 0 THEN 1000
     ELSE IF diff <= 1 THEN 800
     ELSE IF candidate_years > required_years
     THEN IF 1000 - (diff - 1) * 150 < 600 THEN 600 ELSE 1000 - (diff - 1) * 150
     ELSE IF 1000 - (diff - 1) * 150 < 300 THEN 300 ELSE 1000 - (diff - 1) * 150

\* calculate_experience_match with tolerance 1 (lines 125-137)
calculate_experience_match(candidate_years, required_years) ==
  LET diff == Abs(candidate_years - required_years)
  IN IF required_years = 0 THEN 1000
     ELSE IF diff = 0 THEN 1000
     ELSE IF diff <= 1 THEN 800
     ELSE IF candidate_years > required_years THEN Max(600, 1000 - (diff - 1) * 100)
     ELSE Max(300, 1000 - (diff - 1) * 150)

\* the markers of remote work and of relocation, "udalen" and "relokatsiya"
\* standing for the Russian words of lines 221-230
RemoteMarkers == { << "remote" >>, << "udalen" >> }

RelocationMarkers == { << "relokatsiya" >>, << "relocation" >> }

\* a location match that gives a remote candidate the full score
RemoteEitherSide(candidate_lower, vacancy_lower) ==
  \E m \in RemoteMarkers : is_in(m, vacancy_lower) \/ is_in(m, candidate_lower)

\* lines 221-222: the vacancy is remote
remote_gives_full(candidate_lower, vacancy_lower) ==
  \E m \in RemoteMarkers : is_in(m, vacancy_lower)

\* calculate_location_match (lines 212-233)
calculate_location_match(candidate_location, vacancy_location) ==
  LET candidate_lower == lower_text(candidate_location)
      vacancy_lower == lower_text(vacancy_location)
  IN IF vacancy_location = << >> \/ candidate_location = << >> THEN 1000
     ELSE IF candidate_lower = vacancy_lower THEN 1000
     ELSE IF remote_gives_full(candidate_lower, vacancy_lower) THEN 1000
     ELSE IF \E m \in RemoteMarkers : is_in(m, candidate_lower) THEN 900
     ELSE IF is_in(candidate_lower, vacancy_lower) \/ is_in(vacancy_lower, candidate_lower)
     THEN 900
     ELSE IF \E m \in RelocationMarkers : is_in(m, candidate_lower) THEN 700
     ELSE 500

\* calculate_keyword_boost (lines 153-165), the texts being sets of
\* lower-cased words and the keywords a list
calculate_keyword_boost(candidate_text, vacancy_text, keywords) ==
  LET extracted == vacancy_text \cap SkillWords
      matches == Cardinality({ j \in 1..Len(keywords) : lower(keywords[j]) \in candidate_text })
  IN IF keywords = << >>
     THEN IF extracted = {} THEN 0
          ELSE Min(200, (Cardinality(extracted \cap candidate_text) * 200)
                          \div Cardinality(extracted))
     ELSE Min(200, (matches * 200) \div Len(keywords))

\* the decision with > in place of >=
DecisionStrict(screening_score) ==
  IF screening_score > 60000 THEN "PASS"
  ELSE IF screening_score > 40000 THEN "MAYBE"
  ELSE "REJECT"

\* lines 281-286
decision(screening_score) ==
  IF screening_score >= 60000 THEN "PASS"
  ELSE IF screening_score >= 40000 THEN "MAYBE"
  ELSE "REJECT"

\* lines 273-279
composite(vector_score, hard_skills_score, experience_score, location_score, keyword_boost) ==
  vector_score + 30 * hard_skills_score + 20 * experience_score
    + 10 * location_score + 100 * keyword_boost

\* Optional[int] "or 0"
OrZero(opt) == IF opt = {} THEN 0 ELSE CHOOSE n \in opt : TRUE

\* screen_candidate (lines 249-313)
screen_candidate(candidate, vac, vector_score, semantic) ==
  LET hard_skills_score ==
        calculate_hard_skills_match(candidate.skills, vac.skills, TRUE, semantic)
      experience_score ==
        calculate_experience_match(candidate.experience_years, OrZero(vac.experience_years))
      location_score == calculate_location_match(candidate.location, vac.location)
      keyword_boost ==
        calculate_keyword_boost(candidate.summary \cup lower_set(candidate.skills),
                                vac.description \cup lower_set(vac.skills), vac.skills)
      screening_score ==
        composite(vector_score, hard_skills_score, experience_score, location_score,
                  keyword_boost)
  IN [ screening_score |-> screening_score, vector_score |-> vector_score,
       hard_skills_score |-> hard_skills_score, experience_score |-> experience_score,
       location_score |-> location_score, keyword_boost |-> keyword_boost,
       decision |-> decision(screening_score) ]

\* longest list the screening is given
MaxList == 2

\* the profiles the candidates of a list are built from
FilterProfiles ==
  { [skills |-> << "python" >>, summary |-> {}, experience_years |-> 3, location |-> << >>],
    [skills |-> << >>, summary |-> { "python" }, experience_years |-> 0, location |-> << >>],
    [skills |-> << "python", "sql" >>, summary |-> {}, experience_years |-> 5,
     location |-> << "moscow" >>] }

FilterVacancies ==
  { [skills |-> << "python" >>, description |-> {}, experience_years |-> { 3 },
     location |-> << "moscow" >>],
    [skills |-> << >>, description |-> { "sql" }, experience_years |-> {}, location |-> << >>] }

\* search hits as filter_candidates gets them: no "screening" key yet
FilterLists ==
  UNION { { [ j \in 1..n |-> [ id |-> 100 + j, score |-> sc[j], profile |-> pr[j],
                               has_screening |-> FALSE, screening |-> 0 ] ] :
              sc \in [ 1..n -> { 10000, 30000 } ], pr \in [ 1..n -> FilterProfiles ] } :
          n \in 0..MaxList }

\* minimum screening scores 0.3 and 0.4, and one above every score
MinScores == { 30000, 40000, 130000 }

\* lines 338-360: every candidate of the list is screened and the result is
\* stored in its record, under "screening"
screen_all(candidates_with_scores, vac, semantic) ==
  [ j \in 1..Len(candidates_with_scores) |->
      [ candidates_with_scores[j] EXCEPT
          !.has_screening = TRUE,
          !.screening = screen_candidate(candidates_with_scores[j].profile, vac,
                                         candidates_with_scores[j].score,
                                         semantic).screening_score ] ]

NotCalled == [done |-> FALSE, value |-> << >>]

Returned(value) == [done |-> TRUE, value |-> value]

ScreenInit ==
  /\ fn \in { "screen_candidate", "filter_candidates" }
  /\ IF fn = "screen_candidate"
     THEN \E c \in ScreenCandidates, v \in ScreenVacancies, vs \in ScreenVectorVals :
            \E sem \in SemanticOutcomes(v.skills) :
              arg = [ candidate |-> c, vacancy |-> v, vector_score |-> vs,
                      semantic |-> sem ]
     ELSE arg \in [ candidates_with_scores : FilterLists, vacancy : FilterVacancies,
                    min_screening_score : MinScores, top_k : 0..MaxList,
                    semantic : { [raised |-> TRUE, matched |-> {}] } ]
  /\ out = NotCalled
  /\ CoordIdle
  /\ MatchIdle
  /\ AiIdle

ScreenCandidate ==
  /\ fn = "screen_candidate" /\ ~out.done
  /\ out' = Returned(screen_candidate(arg.candidate, arg.vacancy, arg.vector_score,
                                      arg.semantic))
  /\ UNCHANGED << fn, arg, coordVars, storeVars, bulkVars, last, aiVars >>

\* filter_candidates (lines 334-376): the records of the caller's list are
\* the ones that get the "screening" key
FilterCandidates ==
  /\ fn = "filter_candidates" /\ ~out.done
  /\ LET screened == screen_all(arg.candidates_with_scores, arg.vacancy, arg.semantic)
     IN /\ arg' = [arg EXCEPT !.candidates_with_scores = screened]
        /\ out' = Returned(filter_candidates(screened, arg.min_screening_score, arg.top_k))
  /\ UNCHANGED << fn, coordVars, storeVars, bulkVars, last, aiVars >>

ScreenNext ==
  \/ ScreenCandidate
  \/ FilterCandidates

SpecScreen == ScreenInit /\ [][ScreenNext]_vars

----------------------------------------------------------------------------
(* ScreeningService: the component scores, each looked at alone *)

\* longest skill list
MaxSkills == 2

\* most years of experience
MaxYears == 8

SkillLists == UNION { [ 1..n -> SkillStrings ] : n \in 0..MaxSkills }

\* locations as they are written
LocationTexts ==
  { << >>, << "Moscow" >>, << "moscow" >>, << "Moscow", "Russia" >>,
    << "Vladivostok" >>, << "Remote" >>, << "udalen" >>,
    << "Kazan", "relocation" >>, << "Moscow", "relokatsiya" >> }

ComponentsInit ==
  /\ fn \in { "calculate_hard_skills_match", "calculate_experience_match",
              "calculate_location_match" }
  /\ CASE fn = "calculate_hard_skills_match" ->
            \E c \in SkillLists, r \in SkillLists, use \in BOOLEAN :
              \E sem \in SemanticOutcomes(r) :
                arg = [ candidate_skills |-> c, required_skills |-> r,
                        use_semantic_matching |-> use, semantic |-> sem ]
       [] fn = "calculate_experience_match" ->
            arg \in [ candidate_years : 0..MaxYears, required_years : 0..MaxYears ]
       [] fn = "calculate_location_match" ->
            arg \in [ candidate_location : LocationTexts,
                      vacancy_location : LocationTexts ]
  /\ out = NotCalled
  /\ CoordIdle
  /\ MatchIdle
  /\ AiIdle

CalculateHardSkillsMatch ==
  /\ fn = "calculate_hard_skills_match" /\ ~out.done
  /\ out' = Returned(calculate_hard_skills_match(arg.candidate_skills, arg.required_skills,
                                                 arg.use_semantic_matching, arg.semantic))
  /\ UNCHANGED << fn, arg, coordVars, storeVars, bulkVars, last, aiVars >>

CalculateExperienceMatch ==
  /\ fn = "calculate_experience_match" /\ ~out.done
  /\ out' = Returned(calculate_experience_match(arg.candidate_years, arg.required_years))
  /\ UNCHANGED << fn, arg, coordVars, storeVars, bulkVars, last, aiVars >>

CalculateLocationMatch ==
  /\ fn = "calculate_location_match" /\ ~out.done
  /\ out' = Returned(calculate_location_match(arg.candidate_location, arg.vacancy_location))
  /\ UNCHANGED << fn, arg, coordVars, storeVars, bulkVars, last, aiVars >>

ComponentsNext ==
  \/ CalculateHardSkillsMatch
  \/ CalculateExperienceMatch
  \/ CalculateLocationMatch

SpecComponents == ComponentsInit /\ [][ComponentsNext]_vars

----------------------------------------------------------------------------
(* RerankingService.rerank_candidates, looked at alone *)
(* Scores are in hundredths.                                                *)

\* original scores of the candidates, and cross-encoder scores after the
\* sigmoid, both with the ends of [0, 1]
UnitVals == { 0, 50, 100 }

RerankLists ==
  UNION { { [ j \in 1..n |-> [ id |-> 100 + j, score |-> sc[j] ] ] :
              sc \in [ 1..n -> UnitVals ] } : n \in 0..MaxList }

\* what CrossEncoder.predict and the sigmoid do for n pairs
PredictOutcomes(n) ==
  { [raised |-> TRUE, scores |-> << >>] } \cup
  { [raised |-> FALSE, scores |-> r] : r \in [ 1..n -> UnitVals ] }

RerankInit ==
  /\ fn = "rerank_candidates"
  /\ arg \in UNION { [ candidates : { l }, top_k : { k },
                       predict : PredictOutcomes(Min(k, Len(l))) ] :
                     l \in RerankLists, k \in 0..(MaxList + 1) }
  /\ out = NotCalled
  /\ CoordIdle
  /\ MatchIdle
  /\ AiIdle

\* rerank_candidates: the first top_k records of the caller's list get the
\* new keys and scores when the model call succeeds
RerankCandidates ==
  /\ fn = "rerank_candidates" /\ ~out.done
  /\ out' = Returned(rerank_candidates(arg.candidates, arg.top_k, arg.predict))
  /\ arg' = [arg EXCEPT !.candidates =
               IF @ = << >> \/ arg.predict.raised THEN @
               ELSE reranked_records(Take(@, arg.top_k), arg.predict)
                      \o SubSeq(@, Min(arg.top_k, Len(@)) + 1, Len(@))]
  /\ UNCHANGED << fn, coordVars, storeVars, bulkVars, last, aiVars >>

SpecRerank == RerankInit /\ [][RerankCandidates]_vars

----------------------------------------------------------------------------
(* RerankingService: the cache of skill embeddings *)
(* The cache is a set of entries, one for a key, each with the skill whose  *)
(* embedding it holds.                                                      *)

\* skills as they are written, one of them with a blank in front
CacheSkills == { "Python", "python", " python", "sql" }

\* skill.lower().strip()
skill_key(skill) == IF lower(skill) = " python" THEN "python" ELSE lower(skill)

CacheSkillLists == UNION { [ 1..n -> CacheSkills ] : n \in 1..MaxSkills }

cache_keys(cache) == { e.key : e \in cache }

\* cache[key]
cache_get(cache, key) == (CHOOSE e \in cache : e.key = key).skill

\* cache[key] = the embedding of skill
cache_put(cache, key, skill) ==
  { e \in cache : e.key # key } \cup { [key |-> key, skill |-> skill] }

\* lines 198-204: the skills whose key is not in the cache when the call
\* begins, as often as they stand in the list
skills_to_encode(cache, skills) ==
  SelectSeq(skills, LAMBDA skill : skill_key(skill) \notin cache_keys(cache))

\* lines 215-217: the new embeddings are stored, one after the other
cache_after(cache, to_encode) ==
  LET f[k \in 0..Len(to_encode)] ==
        IF k = 0 THEN cache
        ELSE cache_put(f[k - 1], skill_key(to_encode[k]), to_encode[k])
  IN f[Len(to_encode)]

\* _get_skill_embeddings (lines 193-232) for a list that is not empty, as
\* calculate_semantic_skill_match calls it; encode is taken to succeed
GetSkillEmbeddings ==
  \E skills \in CacheSkillLists :
    LET to_encode == skills_to_encode(skill_embeddings_cache, skills)
        cache == cache_after(skill_embeddings_cache, to_encode)
    IN /\ skill_embeddings_cache' = cache
       /\ encoded' = encoded \o to_encode
       /\ fn' = "_get_skill_embeddings"
       /\ arg' = [ skills |-> skills ]
       /\ out' = Returned([ j \in 1..Len(skills) |-> cache_get(cache, skill_key(skills[j])) ])
       /\ UNCHANGED << _vacancies, _candidates, vacancy_collection, candidate_collection,
                       bulkVars, last, coordVars, aiVars >>

\* clear_cache (lines 234-237)
ClearCache ==
  /\ skill_embeddings_cache' = {}
  /\ encoded' = << >>
  /\ fn' = "clear_cache"
  /\ arg' = << >>
  /\ out' = Returned(<< >>)
  /\ UNCHANGED << _vacancies, _candidates, vacancy_collection, candidate_collection,
                  bulkVars, last, coordVars, aiVars >>

CacheNext ==
  \/ GetSkillEmbeddings
  \/ ClearCache

SpecCache == MatchInit /\ [][CacheNext]_vars

----------------------------------------------------------------------------
(* BaseAgent._parse_agent_response, looked at alone *)
(* A text is a sequence of tokens: a key, the pipe, a blank, a line break,  *)
(* a word or the text of a number. Numbers are in hundredths.               *)

Keys == { "SCORE:", "CONFIDENCE:", "FINDINGS:", "STRENGTHS:", "WEAKNESSES:",
          "RECOMMENDATIONS:" }

\* the texts float() reads, with the number each stands for
NumberTexts == { "0.0", "0.7", "0.8" }

float(text) ==
  CASE text = << "0.0" >> -> 0
    [] text = << "0.7" >> -> 70
    [] text = << "0.8" >> -> 80

\* float() raises ValueError for every other text
float_raises(text) == ~(Len(text) = 1 /\ text[1] \in NumberTexts)

\* str(x) of a number, as it stands in a response
str(x) ==
  CASE x = 0 -> << "0.0" >>
    [] x = 70 -> << "0.7" >>
    [] x = 80 -> << "0.8" >>

\* what str.strip() takes off
Whitespace == { " ", "\n" }

RECURSIVE lstrip(_)
lstrip(text) ==
  IF text # << >> /\ Head(text) \in Whitespace THEN lstrip(Tail(text)) ELSE text

RECURSIVE rstrip(_)
rstrip(text) ==
  IF text # << >> /\ text[Len(text)] \in Whitespace
  THEN rstrip(SubSeq(text, 1, Len(text) - 1))
  ELSE text

\* a strip that leaves the text as it is
KeepBlanks(text) == text

\* str.strip()
strip(text) == rstrip(lstrip(text))

startswith(text, key) == text # << >> /\ text[1] = key

\* str.replace(key, ""): every occurrence of the key goes
replace(text, key) == SelectSeq(text, LAMBDA t : t # key)

\* str.split(sep)
RECURSIVE split(_, _)
split(text, sep) ==
  IF \A j \in 1..Len(text) : text[j] # sep THEN << text >>
  ELSE LET cut == CHOOSE j \in 1..Len(text) :
                    text[j] = sep /\ \A h \in 1..(j - 1) : text[h] # sep
       IN << SubSeq(text, 1, cut - 1) >>
            \o split(SubSeq(text, cut + 1, Len(text)), sep)

\* [s.strip() for s in text.split("|") if s.strip()]
stripped_items(text) ==
  LET parts == split(text, "|")
  IN SelectSeq([ j \in 1..Len(parts) |-> strip(parts[j]) ],
               LAMBDA item : item # << >>)

\* lines 114-121
default_result ==
  [ score |-> 0, confidence |-> 80, findings |-> << >>,
    strengths |-> << >>, weaknesses |-> << >>, recommendations |-> << >> ]

\* a parser without the handlers of lines 131 and 139
ReraiseValueError(st) == [st EXCEPT !.raised = TRUE]

\* except ValueError: pass
except_value_error(st) == st

\* a parser whose list keys close the findings section
SectionClosed(current_section) == "None"

\* lines 146-165: the branches of the three list keys do not assign
\* current_section
after_list_key(current_section) == current_section

\* one pass of the loop of lines 126-178
parse_line(st, raw) ==
  LET line == strip(raw)
      list_of(key) == stripped_items(strip(replace(line, key)))
      listed == [st EXCEPT !.current_section = after_list_key(@)]
  IN IF st.raised THEN st
     ELSE IF startswith(line, "SCORE:") THEN
       LET text == strip(replace(line, "SCORE:"))
       IN IF float_raises(text) THEN except_value_error(st)
          ELSE [st EXCEPT !.result.score = float(text)]
     ELSE IF startswith(line, "CONFIDENCE:") THEN
       LET text == strip(replace(line, "CONFIDENCE:"))
       IN IF float_raises(text) THEN except_value_error(st)
          ELSE [st EXCEPT !.result.confidence = float(text)]
     ELSE IF startswith(line, "FINDINGS:") THEN
       [st EXCEPT !.result.findings = strip(replace(line, "FINDINGS:")),
                  !.current_section = "findings"]
     ELSE IF startswith(line, "STRENGTHS:") THEN
       IF strip(replace(line, "STRENGTHS:")) = << >> THEN listed
       ELSE [listed EXCEPT !.result.strengths = list_of("STRENGTHS:")]
     ELSE IF startswith(line, "WEAKNESSES:") THEN
       IF strip(replace(line, "WEAKNESSES:")) = << >> THEN listed
       ELSE [listed EXCEPT !.result.weaknesses = list_of("WEAKNESSES:")]
     ELSE IF startswith(line, "RECOMMENDATIONS:") THEN
       IF strip(replace(line, "RECOMMENDATIONS:")) = << >> THEN listed
       ELSE [listed EXCEPT !.result.recommendations = list_of("RECOMMENDATIONS:")]
     ELSE IF st.current_section = "findings" /\ line # << >> THEN
       [st EXCEPT !.result.findings = @ \o << " " >> \o line]
     ELSE st

\* _parse_agent_response (base_agent.py lines 102-180): what the call raises
\* or returns
_parse_agent_response(response) ==
  LET lines == split(strip(response), "\n")
      st[k \in 0..Len(lines)] ==
        IF k = 0
        THEN [ result |-> default_result, current_section |-> "None",
               raised |-> FALSE ]
        ELSE parse_line(st[k - 1], lines[k])
  IN [ raised |-> st[Len(lines)].raised, result |-> st[Len(lines)].result ]

\* the longest response, in lines
MaxLines == 2

\* what stands behind the start of a line: nothing, a number, a word, two
\* items, or the key of the line once more before a number
LineBodies(head) ==
  { << >>, << " ", "0.7" >>, << " ", "w" >>,
    << " ", "w", " ", "|", " ", "x" >>,
    << " ", head, " ", "0.7" >> }

\* lines that start with a key, lines that start with a word, and lines
\* with a blank before the key
ResponseLines ==
  UNION { { << head >> \o body : body \in LineBodies(head) } :
          head \in Keys \cup { "w" } }
  \cup { << " ", head, " ", "0.7" >> : head \in Keys \cup { "w" } }

\* sep.join(parts)
RECURSIVE join(_, _)
join(parts, sep) ==
  IF parts = << >> THEN << >>
  ELSE IF Len(parts) = 1 THEN parts[1]
  ELSE parts[1] \o sep \o join(Tail(parts), sep)

ParseInit ==
  /\ fn = "_parse_agent_response"
  /\ \E n \in 0..MaxLines : \E lines \in [ 1..n -> ResponseLines ] :
       arg = [ response |-> join(lines, << "\n" >>) ]
  /\ out = NotCalled
  /\ CoordIdle
  /\ MatchIdle
  /\ AiIdle

ParseAgentResponse ==
  /\ fn = "_parse_agent_response" /\ ~out.done
  /\ out' = Returned(_parse_agent_response(arg.response))
  /\ UNCHANGED << fn, arg, coordVars, storeVars, bulkVars, last, aiVars >>

SpecParse == ParseInit /\ [][ParseAgentResponse]_vars

\* the longest list of strengths, in items
MaxItems == 2

\* one line of findings: empty, a word, two words, a word behind a blank,
\* a word before the key of the line
FindingsTexts ==
  { << >>, << "w" >>, << "w", " ", "x" >>, << " ", "w" >>,
    << "w", " ", "FINDINGS:" >> }

\* items without a pipe, none of them empty: a word, two words, a word
\* before a blank, a blank, a word before the key of the line, two lines
Items(key) ==
  { << "w" >>, << "x", " ", "w" >>, << "x", " " >>, << " " >>,
    << "w", " ", key >>, << "w", "\n", "x" >> }

ItemLists(key) ==
  UNION { [ 1..n -> Items(key) ] : n \in 0..MaxItems }

\* a few lists for the other two keys
SampleLists(key) ==
  { << >>, << << "w" >> >>, << << "x", " ", "w" >>, << "w" >> >>,
    << << " ", "w" >> >>, << << "w", " ", key >> >> }

\* the response in the expected format (lines 106-112)
well_formed_response(v) ==
  join(<< << "SCORE:", " " >> \o str(v.score),
          << "CONFIDENCE:", " " >> \o str(v.confidence),
          << "FINDINGS:", " " >> \o v.findings,
          << "STRENGTHS:", " " >> \o join(v.strengths, << " ", "|", " " >>),
          << "WEAKNESSES:", " " >> \o join(v.weaknesses, << " ", "|", " " >>),
          << "RECOMMENDATIONS:", " " >>
            \o join(v.recommendations, << " ", "|", " " >>) >>,
       << "\n" >>)

RoundTripInit ==
  /\ fn = "_parse_agent_response"
  /\ \E v \in [ score : { 0, 70 }, confidence : { 70, 80 },
                findings : FindingsTexts,
                strengths : ItemLists("STRENGTHS:"),
                weaknesses : SampleLists("WEAKNESSES:"),
                recommendations : SampleLists("RECOMMENDATIONS:") ] :
       arg = [ values |-> v, response |-> well_formed_response(v) ]
  /\ out = NotCalled
  /\ CoordIdle
  /\ MatchIdle
  /\ AiIdle

SpecRoundTrip == RoundTripInit /\ [][ParseAgentResponse]_vars

\* the longest response of free text and key lines, in lines
MaxTextLines == 4

\* lines of a response with free text: a line of each key, the FINDINGS:
\* key alone, free text, free text with blanks around it and a key inside,
\* an empty line
TextLines ==
  { << "FINDINGS:", " ", "w" >>, << "FINDINGS:" >>, << "STRENGTHS:", " ", "w" >>,
    << "WEAKNESSES:" >>, << "RECOMMENDATIONS:", " ", "w" >>,
    << "SCORE:", " ", "0.7" >>, << "CONFIDENCE:", " ", "w" >>,
    << "x" >>, << " ", "x", " ", "FINDINGS:", " " >>, << >> }

TextInit ==
  /\ fn = "_parse_agent_response"
  /\ \E n \in 0..MaxTextLines : \E lines \in [ 1..n -> TextLines ] :
       arg = [ lines |-> lines, response |-> join(lines, << "\n" >>) ]
  /\ out = NotCalled
  /\ CoordIdle
  /\ MatchIdle
  /\ AiIdle

SpecText == TextInit /\ [][ParseAgentResponse]_vars

----------------------------------------------------------------------------
(* AgentCoordinator: properties *)

RosterIndex(a) == CHOOSE k \in 1..Len(all_agents) : all_agents[k] = a

InRosterOrder(ag) ==
  \A a, b \in 1..Len(ag) : a < b => RosterIndex(ag[a]) < RosterIndex(ag[b])

SeqRun == op = "analyze" /\ sequential
ParRun == op = "analyze" /\ ~sequential

RunningTasks == { j \in 1..Len(tasks) : tasks[j].st = "running" }
SucceededTasks == { j \in 1..Len(tasks) : tasks[j].st = "done" /\ ~tasks[j].raised }

\* C1: in sequential mode every evaluator call but the first starts right
\* after a pacing sleep, whether the call before it returned or raised.
C1_SleepBetweenEvaluators ==
  SeqRun => \A k \in 2..Len(startedAfter) : startedAfter[k] = "sleep"

\* C2: in sequential mode at most one evaluator call is in flight, the calls
\* start in the order of the agents list (the roster order when the list was
\* selected), and a call starts only when the one before it has ended.
C2_OneAtATimeInListOrder ==
  SeqRun =>
    /\ Cardinality(RunningTasks) <= 1
    /\ \A k \in 1..Len(startOrder) : startOrder[k] = k
    /\ \A j \in 2..Len(tasks) : tasks[j].st # "pending" => tasks[j - 1].st = "done"
    /\ (tasks # << >> /\ agentsArg.given) => agents = agentsArg.list
    /\ (tasks # << >> /\ ~agentsArg.given) => InRosterOrder(agents)

C2_Witness ==
  /\ SeqRun /\ Len(tasks) >= 2
  /\ tasks[1].st = "done" /\ tasks[2].st = "running"
  /\ agentsArg.given /\ ~InRosterOrder(agents)

\* C3: in concurrent mode every evaluator of the list is started, and when
\* analyze_candidate ends it has returned (not raised) with exactly the
\* results of the evaluators that succeeded, whatever the others did.
C3_GatherIsolatesFailures ==
  ParRun =>
    /\ \A j \in 1..Len(tasks) : tasks[j].st # "pending"
    /\ pc = "done" =>
         /\ ret.kind = "return"
         /\ Len(ret.agent_results) = Cardinality(SucceededTasks)
         /\ { ret.agent_results[k] : k \in 1..Len(ret.agent_results) }
              = { AgentResult(agents[j], tasks[j]) : j \in SucceededTasks }

C3_Witness ==
  /\ ParRun /\ pc = "done"
  /\ \E j \in 1..Len(tasks) : tasks[j].raised
  /\ Cardinality(SucceededTasks) >= 2
  /\ ret.agent_results # << >>

ConfidenceSum(rs) ==
  LET f[k \in 0..Len(rs)] == IF k = 0 THEN 0 ELSE f[k - 1] + rs[k].confidence
  IN f[Len(rs)]
ScoreSum(rs) ==
  LET f[k \in 0..Len(rs)] == IF k = 0 THEN 0 ELSE f[k - 1] + rs[k].score
  IN f[Len(rs)]
ProductSum(rs) ==
  LET f[k \in 0..Len(rs)] == IF k = 0 THEN 0 ELSE f[k - 1] + rs[k].score * rs[k].confidence
  IN f[Len(rs)]

\* C5: with at least one result, overall_score is the confidence-weighted
\* mean when the total confidence is positive and the plain mean when it is
\* 0, and the aggregation never divides by zero.
C5_WeightedMeanWithFallback ==
  /\ (op = "analyze" /\ pc = "done") => ret.kind = "return"
  /\ (ret.kind = "return" /\ ret.agent_results # << >>) =>
       LET rs == ret.agent_results
           total == ConfidenceSum(rs)
           s == ret.overall_score
       IN /\ ~s.zero_division
          /\ total > 0 => s.num * total = ProductSum(rs) * s.den
          /\ total = 0 => s.num * Len(rs) = ScoreSum(rs) * s.den

C5_Witness ==
  /\ ret.kind = "return" /\ Len(ret.agent_results) >= 2
  /\ ConfidenceSum(ret.agent_results) = 0
  /\ ret.agent_results[1].score # ret.agent_results[2].score

\* C6: with an empty agents list analyze_candidate returns score 0.0, no
\* results and the static no-agents summary, and issues neither an evaluator
\* call nor the summary call.
C6_NoEvaluatorsResult ==
  (op = "analyze" /\ pc = "done" /\ agents = << >>) =>
    /\ ret.kind = "return"
    /\ ret.agent_results = << >>
    /\ ret.overall_score = Frac(0, 1)
    /\ ret.summary = NoAgentsSummary
    /\ llm_calls.agent = 0
    /\ llm_calls.summary = 0

C6_Witness ==
  /\ op = "analyze" /\ pc = "done"
  /\ agentsArg.given /\ agentsArg.list = << >>
  /\ ret.summary = NoAgentsSummary

\* C7: when the summary call raises after an evaluator succeeded,
\* analyze_candidate returns the static fallback summary with the results
\* and the score it had computed before the call.
C7_SummaryFailureIsAbsorbed ==
  (op = "analyze" /\ pc = "done" /\ sumOutcome.raised) =>
    /\ ret.kind = "return"
    /\ ret.summary = FallbackSummary
    /\ ret.agent_results = agent_results /\ agent_results # << >>
    /\ ret.overall_score = overall_score
    /\ ret.total_agents = Len(agent_results)

C7_Witness ==
  /\ op = "analyze" /\ pc = "done" /\ sumOutcome.raised
  /\ ret.kind = "return" /\ ret.summary = FallbackSummary
  /\ Len(ret.agent_results) >= 1
  /\ \E j \in 1..Len(tasks) : tasks[j].raised

----------------------------------------------------------------------------
(* MatchingService: properties *)

\* C8: a bulk call that has ended has returned, with exactly one entry per
\* vacancy stored when it was called, in the store's order; the entries with
\* an error are exactly those of the vacancies whose processing raised, they
\* carry no candidates, and every other entry is fully populated.
C8_BulkReturnsOneEntryPerVacancy ==
  bulkPc \in { "done", "raised" } =>
    /\ bulkPc = "done"
    /\ Len(results) = iterSize
    /\ \A k \in 1..Len(results) :
         /\ results[k].vacancy_id = _vacancies[k]
         /\ results[k].has_error <=> _vacancies[k] \in failed
         /\ results[k].has_error =>
              results[k].candidates = << >> /\ results[k].candidates_count = 0
         /\ ~results[k].has_error =>
              /\ results[k].has_ranked
              /\ results[k].candidates_count = Len(results[k].candidates)
              /\ Len(results[k].ranked_candidates) = Len(results[k].candidates)

\* C9: a query for the candidates of an existing vacancy whose vector search
\* raised completes with a (possibly empty) result; the exception does not
\* reach the caller.
C9_SearchFailureIsAbsorbed ==
  (last.op = "find_candidates_for_vacancy" /\ last.found /\ last.search_raised) =>
    last.kind = "return"

\* C10: a query made with an identity that is not in the entity store raises
\* the not-found error (ValueError, which the route answers with 404 and
\* every other error with 500), has made no vector-search, screening or
\* language-model call, leaves the entity store as it was, and does not
\* return a result.
C10_UnknownIdentityIsNotFound ==
  [][ (last' # last /\ ~last'.found) =>
        /\ last'.kind = "raise"
        /\ last'.error = "ValueError"
        /\ last'.status = 404
        /\ last'.search_calls = 0
        /\ last'.screen_calls = 0
        /\ last'.llm_calls = 0
        /\ UNCHANGED storeVars ]_vars

\* both queries have missed in a populated store: this one for a vacancy,
\* with a vacancy and an indexed candidate stored
C10_Witness ==
  /\ last.op = "find_candidates_for_vacancy"
  /\ ~last.found
  /\ last.kind = "raise"
  /\ _vacancies # << >>
  /\ last.id \notin SeqRange(_vacancies)
  /\ candidate_collection # {}

\* C12: a bulk call with use_ai false has made no analyze_candidate call
\* (the evaluators and the summary are the only language-model calls of the
\* pipeline), whatever the search and the cross-encoder did, and every
\* result it holds has agent_score 0 and no evaluator results.
C12_NoAiPathNeverCallsPanel ==
  (bulkPc # "idle" /\ ~use_ai) =>
    /\ panel_calls = 0
    /\ bulkPc # "analysing"
    /\ \A k \in 1..Len(results) : \A j \in 1..Len(results[k].candidates) :
         /\ results[k].candidates[j].agent_score = 0
         /\ results[k].candidates[j].total_agents = 0

\* a bulk call without AI has ended, with candidates for a vacancy
C12_Witness ==
  /\ bulkPc = "done"
  /\ ~use_ai
  /\ \E k \in 1..Len(results) : results[k].candidates # << >>

C25_RanksAndSummary ==
  bulkPc = "done" =>
    LET rows == ranking_summary(results)
        ranked == { e \in { results[k] : k \in 1..Len(results) } : ~e.has_error }
    IN /\ \A e \in ranked :
            /\ Len(e.ranked_candidates) = e.candidates_count
            /\ \A j \in 1..Len(e.ranked_candidates) : e.ranked_candidates[j].rank = j
            /\ \A j \in 1..(Len(e.ranked_candidates) - 1) :
                 e.ranked_candidates[j].score >= e.ranked_candidates[j + 1].score
            /\ \A j \in 1..Len(e.ranked_candidates) :
                 Cardinality({ n \in 1..Len(rows) :
                   /\ rows[n].job_title = e.vacancy_id
                   /\ rows[n].rank = j
                   /\ rows[n].candidate_name = e.ranked_candidates[j].candidate_id
                   /\ rows[n].score = e.ranked_candidates[j].score }) = 1
       /\ \A n \in 1..Len(rows) :
            /\ rows[n].job_title \notin failed
            /\ \E e \in ranked :
                 /\ rows[n].job_title = e.vacancy_id
                 /\ rows[n].rank \in 1..Len(e.ranked_candidates)

\* a bulk call ended with one vacancy that failed and one with two ranked
\* candidates of different scores: the summary has these two rows
C25_Witness ==
  /\ bulkPc = "done"
  /\ failed # {}
  /\ \E k \in 1..Len(results) :
       /\ ~results[k].has_error
       /\ Len(results[k].ranked_candidates) = 2
       /\ results[k].ranked_candidates[1].score > results[k].ranked_candidates[2].score
  /\ Len(ranking_summary(results)) = 2

----------------------------------------------------------------------------
(* ScreeningService: properties *)

\* C13: the composite screening score that screen_candidate returns lies in
\* [0, 1], as do its five component scores.
C13_ScreeningScoreInUnitRange ==
  (fn = "screen_candidate" /\ out.done) =>
    /\ out.value.screening_score >= 0 /\ out.value.screening_score <= 100000
    /\ out.value.vector_score >= 0 /\ out.value.vector_score <= 40000
    /\ out.value.hard_skills_score >= 0 /\ out.value.hard_skills_score <= 1000
    /\ out.value.experience_score >= 0 /\ out.value.experience_score <= 1000
    /\ out.value.location_score >= 0 /\ out.value.location_score <= 1000
    /\ out.value.keyword_boost >= 0 /\ out.value.keyword_boost <= 1000

\* C14: the decision of screen_candidate depends on the screening score
\* alone: PASS exactly from 0.6 up, MAYBE exactly from 0.4 up to below 0.6,
\* REJECT exactly below 0.4; exactly one of the three is issued.
C14_DecisionBoundaries ==
  (fn = "screen_candidate" /\ out.done) =>
    LET score == out.value.screening_score
        d == out.value.decision
    IN /\ d \in { "PASS", "MAYBE", "REJECT" }
       /\ d = "PASS" <=> score >= 60000
       /\ d = "MAYBE" <=> (score >= 40000 /\ score < 60000)
       /\ d = "REJECT" <=> score < 40000

\* a score of 0.5999 was decided MAYBE
C14_Witness ==
  /\ fn = "screen_candidate" /\ out.done
  /\ out.value.screening_score = 59990
  /\ out.value.decision = "MAYBE"

\* C15 as stated: the output of filter_candidates is strictly descending by
\* screening score and not longer than top_k.
C15_StrictlyDescending ==
  (fn = "filter_candidates" /\ out.done) =>
    /\ Len(out.value) <= arg.top_k
    /\ \A k \in 1..(Len(out.value) - 1) :
         out.value[k].screening > out.value[k + 1].screening

\* C15 amended: the output of filter_candidates is in descending order of
\* screening score, equal scores allowed next to each other, and is not
\* longer than top_k.
C15_Descending ==
  (fn = "filter_candidates" /\ out.done) =>
    /\ Len(out.value) <= arg.top_k
    /\ IsDescending(out.value, "screening")

\* two candidates with different scores came back in the order opposite to
\* the input's
C15_Witness ==
  /\ fn = "filter_candidates" /\ out.done
  /\ Len(out.value) = 2
  /\ out.value[1].screening > out.value[2].screening
  /\ out.value[1].id = arg.candidates_with_scores[2].id

\* C16: screening has no side effect: a call leaves its arguments (the
\* candidate records, the list and the vacancy) as they were.
C16_ScreeningLeavesInputsAlone ==
  [][ arg' = arg ]_vars

----------------------------------------------------------------------------
(* RerankingService: properties *)

\* C17: rerank_candidates returns a list no longer than its input and no
\* longer than top_k, and every score it returns lies in [0, 1], the
\* original scores and the squashed cross-encoder scores being in [0, 1].
C17_RerankKeepsLengthAndRange ==
  (fn = "rerank_candidates" /\ out.done) =>
    /\ Len(out.value) <= Len(arg.candidates)
    /\ Len(out.value) <= arg.top_k
    /\ \A j \in 1..Len(out.value) :
         out.value[j].score >= 0 /\ out.value[j].score <= 100

\* a list longer than top_k was reranked, and a record with original score 1
\* got the rerank score 1
C17_Witness ==
  /\ fn = "rerank_candidates" /\ out.done
  /\ ~arg.predict.raised
  /\ Len(arg.candidates) > arg.top_k
  /\ \E j \in 1..Len(out.value) :
       out.value[j].score = 100 /\ out.value[j].rerank_score = 100

\* C18: when the cross-encoder call fails, rerank_candidates returns the
\* first top_k items of its input as they were: same items, same order, same
\* scores, no rerank_score; the input list is as it was, too.
C18_RerankFailureReturnsInput ==
  [][ (fn = "rerank_candidates" /\ ~out.done /\ out'.done /\ arg.predict.raised) =>
        /\ out'.value = Take(arg.candidates, arg.top_k)
        /\ \A j \in 1..Len(out'.value) : "rerank_score" \notin DOMAIN out'.value[j]
        /\ arg' = arg ]_vars

\* the model call failed for a list of two candidates, the worse one first,
\* with top_k 1
C18_Witness ==
  /\ fn = "rerank_candidates" /\ out.done
  /\ arg.predict.raised
  /\ Len(arg.candidates) = 2 /\ arg.top_k = 1
  /\ arg.candidates[1].score < arg.candidates[2].score
  /\ Len(out.value) = 1

----------------------------------------------------------------------------
(* BaseAgent._parse_agent_response: properties *)

\* C19 as stated: the parser never raises; a response with none of the keys
\* gives the defaults; and when the value behind the key of every SCORE
\* (CONFIDENCE) line is not a number, the score (confidence) is the default.
C19_ValueBehindKeyNotANumber ==
  (fn = "_parse_agent_response" /\ out.done) =>
    LET response == split(arg.response, "\n")
        value_behind(key, raw) == strip(Tail(strip(raw)))
        no_number(key) ==
          \A k \in 1..Len(response) :
            startswith(strip(response[k]), key) =>
              float_raises(value_behind(key, response[k]))
    IN /\ ~out.value.raised
       /\ (\A k \in 1..Len(response) : \A j \in 1..Len(response[k]) :
             response[k][j] \notin Keys) => out.value.result = default_result
       /\ no_number("SCORE:") => out.value.result.score = 0
       /\ no_number("CONFIDENCE:") => out.value.result.confidence = 80

\* C19, amended: the parser never raises; a response with none of the keys
\* gives the defaults; and when no SCORE (CONFIDENCE) line, with every
\* occurrence of its key taken out, is a number float() reads, the score
\* (confidence) is the default.
C19_ParserNeverRaisesAndDefaults ==
  (fn = "_parse_agent_response" /\ out.done) =>
    LET response == split(arg.response, "\n")
        no_number(key) ==
          \A k \in 1..Len(response) :
            startswith(strip(response[k]), key) =>
              float_raises(strip(replace(strip(response[k]), key)))
    IN /\ ~out.value.raised
       /\ (\A k \in 1..Len(response) : \A j \in 1..Len(response[k]) :
             response[k][j] \notin Keys) => out.value.result = default_result
       /\ no_number("SCORE:") => out.value.result.score = 0
       /\ no_number("CONFIDENCE:") => out.value.result.confidence = 80

\* a response of a SCORE line with a word behind the key and a CONFIDENCE
\* line with 0.7 was parsed: the score stayed 0.0, the confidence is 0.7
C19_Witness ==
  /\ fn = "_parse_agent_response" /\ out.done
  /\ arg.response = << "SCORE:", " ", "w", "\n", "CONFIDENCE:", " ", "0.7" >>
  /\ out.value.result.score = 0
  /\ out.value.result.confidence = 70

\* C20 as stated: the well-formed response built from a score, a
\* confidence, a findings line and lists of non-empty pipe-free items parses
\* back to exactly those values.
C20_RoundTrip ==
  (fn = "_parse_agent_response" /\ out.done /\ "values" \in DOMAIN arg) =>
    /\ ~out.value.raised
    /\ out.value.result = arg.values

\* C20, amended: the same when, besides, the findings and the items have no
\* blank and no line break at either end, no line break inside, and do not
\* hold the key of their own line.
C20_RoundTripOfTrimmedValues ==
  (fn = "_parse_agent_response" /\ out.done /\ "values" \in DOMAIN arg) =>
    LET v == arg.values
        plain(text, key) ==
          /\ strip(text) = text
          /\ \A j \in 1..Len(text) : text[j] # key /\ text[j] # "\n"
        plain_items(list, key) ==
          \A j \in 1..Len(list) : list[j] # << >> /\ plain(list[j], key)
    IN (/\ plain(v.findings, "FINDINGS:")
        /\ plain_items(v.strengths, "STRENGTHS:")
        /\ plain_items(v.weaknesses, "WEAKNESSES:")
        /\ plain_items(v.recommendations, "RECOMMENDATIONS:")) =>
         /\ ~out.value.raised
         /\ out.value.result = v

\* a response with score 0.7, findings of two words, two different
\* strengths and one weakness was parsed back to these values
C20_Witness ==
  /\ fn = "_parse_agent_response" /\ out.done /\ "values" \in DOMAIN arg
  /\ arg.values.score = 70
  /\ arg.values.findings = << "w", " ", "x" >>
  /\ arg.values.strengths = << << "x", " ", "w" >>, << "w" >> >>
  /\ arg.values.weaknesses = << << "w" >> >>
  /\ out.value.result = arg.values

----------------------------------------------------------------------------
(* ScreeningService, component scores: properties *)

\* C21: when the semantic skill matching raises inside
\* calculate_hard_skills_match, the call returns the fraction of the
\* lower-cased required skills that the candidate offers, the value it
\* returns with semantic matching off.
C21_SemanticFailureFallsBack ==
  (/\ fn = "calculate_hard_skills_match" /\ out.done
   /\ arg.required_skills # << >>
   /\ arg.use_semantic_matching /\ arg.semantic.raised) =>
    LET required == { lower(arg.required_skills[j]) : j \in 1..Len(arg.required_skills) }
        offered == { lower(arg.candidate_skills[j]) : j \in 1..Len(arg.candidate_skills) }
    IN /\ out.value = (Cardinality(required \cap offered) * 1000) \div Cardinality(required)
       /\ out.value = calculate_hard_skills_match(arg.candidate_skills, arg.required_skills,
                                                  FALSE, arg.semantic)

\* the semantic matching raised for a vacancy that lists Python twice, in two
\* spellings, and a candidate who offers python: the score is 1.0
C21_Witness ==
  /\ fn = "calculate_hard_skills_match" /\ out.done
  /\ arg.use_semantic_matching /\ arg.semantic.raised
  /\ arg.required_skills = << "Python", "python" >>
  /\ arg.candidate_skills = << "python" >>
  /\ out.value = 1000

\* C22 as stated: 1.0 for an empty location on either side, for equal
\* locations and for a remote marker on either side; then 0.9 for
\* containment, 0.7 for a relocation marker of the candidate, 0.5 otherwise.
C22_RemoteOnEitherSideIsFull ==
  (fn = "calculate_location_match" /\ out.done) =>
    LET c == lower_text(arg.candidate_location)
        v == lower_text(arg.vacancy_location)
        remote(text) == \E m \in RemoteMarkers : is_in(m, text)
    IN out.value =
         IF c = << >> \/ v = << >> THEN 1000
         ELSE IF c = v \/ remote(c) \/ remote(v) THEN 1000
         ELSE IF is_in(c, v) \/ is_in(v, c) THEN 900
         ELSE IF \E m \in RelocationMarkers : is_in(m, c) THEN 700
         ELSE 500

\* C22, amended: 1.0 for an empty location on either side, for equal
\* locations and for a remote vacancy; then 0.9 for a remote candidate and
\* for containment, 0.7 for a relocation marker of the candidate, 0.5
\* otherwise, which is 0.05 of the weighted sum.
C22_LocationMatch ==
  (fn = "calculate_location_match" /\ out.done) =>
    LET c == lower_text(arg.candidate_location)
        v == lower_text(arg.vacancy_location)
        remote(text) == \E m \in RemoteMarkers : is_in(m, text)
        full == c = << >> \/ v = << >> \/ c = v \/ remote(v)
        near == remote(c) \/ is_in(c, v) \/ is_in(v, c)
        relocates == \E m \in RelocationMarkers : is_in(m, c)
    IN /\ full => out.value = 1000
       /\ (~full /\ near) => out.value = 900
       /\ (~full /\ ~near /\ relocates) => out.value = 700
       /\ (~full /\ ~near /\ ~relocates) =>
            out.value = 500 /\ composite(0, 0, 0, out.value, 0) = 5000

\* Vladivostok against Moscow got 0.5
C22_Witness ==
  /\ fn = "calculate_location_match" /\ out.done
  /\ arg.candidate_location = << "Vladivostok" >>
  /\ arg.vacancy_location = << "Moscow" >>
  /\ out.value = 500

\* C23: with required years above 0 the experience score is in [0.3, 1.0],
\* 1.0 on an exact match, 0.8 within one year, beyond that
\* max(0.6, 1.0 - 0.1 * (excess - 1)) above and
\* max(0.3, 1.0 - 0.15 * (deficit - 1)) below, the score above never lower
\* than the score at the same distance below; required years 0 give 1.0.
C23_ExperienceMatch ==
  (fn = "calculate_experience_match" /\ out.done) =>
    LET have == arg.candidate_years
        need == arg.required_years
        decayed(floor, rate, distance) ==
          IF 1000 - rate * (distance - 1) > floor
          THEN 1000 - rate * (distance - 1) ELSE floor
    IN /\ need = 0 => out.value = 1000
       /\ need > 0 =>
            /\ out.value >= 300 /\ out.value <= 1000
            /\ have = need => out.value = 1000
            /\ (have = need + 1 \/ have + 1 = need) => out.value = 800
            /\ have > need + 1 => out.value = decayed(600, 100, have - need)
            /\ have + 1 < need => out.value = decayed(300, 150, need - have)
            /\ have + 1 < need =>
                 calculate_experience_match(need + (need - have), need) >= out.value

\* seven years against one: the score is at its floor of 0.6
C23_Witness ==
  /\ fn = "calculate_experience_match" /\ out.done
  /\ arg.candidate_years = 7 /\ arg.required_years = 1
  /\ out.value = 600

\* C24: calculate_hard_skills_match returns a value in [0, 1] in both modes,
\* and 1.0 for an empty list of required skills.
C24_HardSkillsInUnitRange ==
  (fn = "calculate_hard_skills_match" /\ out.done) =>
    /\ out.value >= 0 /\ out.value <= 1000
    /\ arg.required_skills = << >> => out.value = 1000

\* the semantic matching found every required skill and there are exact
\* matches: the bonus is cut off at 1.0
C24_Witness ==
  /\ fn = "calculate_hard_skills_match" /\ out.done
  /\ arg.use_semantic_matching /\ ~arg.semantic.raised
  /\ arg.required_skills = << "python", "sql" >>
  /\ arg.candidate_skills = << "sql", "Python" >>
  /\ arg.semantic.matched = { 1, 2 }
  /\ out.value = 1000

----------------------------------------------------------------------------
(* RerankingService, the cache of skill embeddings: properties *)

\* C26: since the cache was last empty, no two skills given to the embedding
\* model have the same lower-cased, trimmed form, and the keys of the cache
\* are the forms of the skills that were given to it.
C26_EachSkillEncodedOnce ==
  /\ \A j \in 1..Len(encoded) : \A k \in 1..Len(encoded) :
       skill_key(encoded[j]) = skill_key(encoded[k]) => j = k
  /\ cache_keys(skill_embeddings_cache) = { skill_key(encoded[j]) : j \in 1..Len(encoded) }

----------------------------------------------------------------------------
(* AgentCoordinator, sequential runs: pacing and failures *)

\* C27: in a sequential run whose evaluators were selected by the
\* coordinator, the first evaluator call starts right after a sleep that
\* follows the one selection call; the summary call is issued right after a
\* sleep that follows the end of the last evaluator call, and only when
\* every evaluator call has ended.
C27_PacingAroundEvaluators ==
  SeqRun =>
    /\ (~agentsArg.given /\ startedAfter # << >>) =>
         startedAfter[1] = "sleep" /\ llm_calls.select = 1 /\ selOutcome # NoSelection
    /\ pc = "summary_call" => lastEvent = "sleep"
    /\ llm_calls.summary > 0 =>
         /\ tasks # << >>
         /\ \A j \in 1..Len(tasks) : tasks[j].st = "done"

C27_Witness ==
  /\ SeqRun /\ ~agentsArg.given
  /\ pc = "summary_call" /\ llm_calls.summary = 1
  /\ Len(tasks) >= 2 /\ startedAfter[1] = "sleep"
  /\ tasks[Len(tasks)].raised

RaisedTasks == { j \in 1..Len(tasks) : tasks[j].st = "done" /\ tasks[j].raised }

\* C29 as stated: when a sequential run in which an evaluator raised has
\* ended, every evaluator of the list was invoked, agent_results holds the
\* results of the ones that succeeded in the order of their calls, and
\* total_agents is their number.
C29_TotalAgentsAlwaysReported ==
  (SeqRun /\ pc = "done" /\ RaisedTasks # {}) =>
    /\ ret.kind = "return"
    /\ \A j \in 1..Len(tasks) : tasks[j].st = "done"
    /\ ret.agent_results = ValidResults(agents, tasks)
    /\ ret.has_total_agents /\ ret.total_agents = Cardinality(SucceededTasks)

\* C29: when a sequential run in which an evaluator raised has ended, every
\* evaluator of the list was invoked and agent_results holds the results of
\* the ones that succeeded in the order of their calls; total_agents is
\* their number when at least one succeeded, and the returned dictionary
\* has no total_agents when none did.
C29_FailedEvaluatorIsSkipped ==
  (SeqRun /\ pc = "done" /\ RaisedTasks # {}) =>
    /\ ret.kind = "return"
    /\ \A j \in 1..Len(tasks) : tasks[j].st = "done"
    /\ ret.agent_results = ValidResults(agents, tasks)
    /\ Len(ret.agent_results) = Cardinality(SucceededTasks)
    /\ IF SucceededTasks # {}
       THEN ret.has_total_agents /\ ret.total_agents = Cardinality(SucceededTasks)
       ELSE ~ret.has_total_agents

C29_Witness ==
  /\ SeqRun /\ pc = "done" /\ Len(tasks) >= 2
  /\ tasks[1].raised /\ ~tasks[2].raised
  /\ ret.has_total_agents /\ ret.total_agents = 1
  /\ ret.agent_results = << AgentResult(agents[2], tasks[2]) >>

----------------------------------------------------------------------------
(* RAGService.find_matching_candidates: candidates without a panel result *)

\* the candidates, by their place in the call order, whose analysis came
\* back with total_agents
FullyAnalysed == { j \in 1..Len(analyses) : analyses[j].has_total_agents }

\* C30: in find_matching_candidates, a candidate whose analysis came back
\* without total_agents (no evaluator gave a result) has no entry in the
\* results, every other analysed candidate has one, with the total_agents of
\* its analysis, at least 1; the candidates after it are still analysed, and
\* the call ends by returning these entries.
C30_ZeroResultCandidateIsOmitted ==
  analyses # << >> =>
    /\ aiPc # "raised"
    /\ Len(analyses) <= Len(analysed) /\ Len(analysed) <= Len(aiQueue)
    /\ Len(aiResults) = Cardinality(FullyAnalysed)
    /\ \A j \in 1..Len(analyses) :
         IF j \in FullyAnalysed
         THEN \E k \in 1..Len(aiResults) :
                /\ aiResults[k].candidate_id = analysed[j]
                /\ aiResults[k].total_agents = analyses[j].total_agents
         ELSE \A k \in 1..Len(aiResults) : aiResults[k].candidate_id # analysed[j]
    /\ \A k \in 1..Len(aiResults) : aiResults[k].total_agents >= 1
    /\ aiPc = "done" =>
         /\ Len(analyses) = Len(aiQueue)
         /\ Len(aiOut) = Len(aiResults)
         /\ SeqRange(aiOut) = SeqRange(aiResults)

\* a call has ended; the first candidate had no panel result, the second,
\* analysed after it, is the only one returned
C30_Witness ==
  /\ aiPc = "done" /\ Len(analyses) = 2
  /\ ~analyses[1].raised /\ ~analyses[1].has_total_agents
  /\ analyses[2].has_total_agents
  /\ Len(aiOut) = 1 /\ aiOut[1].candidate_id = analysed[2]

----------------------------------------------------------------------------
(* BaseAgent._parse_agent_response: free text *)

\* what the parser has made of the first k lines of the response
parsed_upto(k) ==
  _parse_agent_response(join(SubSeq(arg.lines, 1, k), << "\n" >>)).result

\* the k-th line is not empty and starts with no key
free_text(k) ==
  LET line == strip(arg.lines[k]) IN line # << >> /\ line[1] \notin Keys

\* a line before the k-th starts with FINDINGS:
findings_seen(k) ==
  \E h \in 1..(k - 1) : startswith(strip(arg.lines[h]), "FINDINGS:")

\* C28: a line of free text that comes after a FINDINGS: line, with or
\* without lines of other keys in between, is appended to findings behind
\* one blank, and the rest of the result stays; a line of free text with no
\* FINDINGS: line before it changes nothing.
C28_FreeTextContinuesFindings ==
  (out.done /\ "lines" \in DOMAIN arg) =>
    /\ out.value.result = parsed_upto(Len(arg.lines))
    /\ \A k \in 1..Len(arg.lines) :
         free_text(k) =>
           IF findings_seen(k)
           THEN parsed_upto(k) =
                  [ parsed_upto(k - 1) EXCEPT
                      !.findings = @ \o << " " >> \o strip(arg.lines[k]) ]
           ELSE parsed_upto(k) = parsed_upto(k - 1)

\* free text, then findings, a list key and free text again: only the second
\* free text is in the findings
C28_Witness ==
  /\ out.done /\ "lines" \in DOMAIN arg
  /\ arg.lines = << << "x" >>, << "FINDINGS:", " ", "w" >>, << "STRENGTHS:", " ", "w" >>,
                    << " ", "x", " ", "FINDINGS:", " " >> >>
  /\ out.value.result.findings = << "w", " ", "x", " ", "FINDINGS:" >>
  /\ out.value.result.strengths = << << "w" >> >>

====
